---- MODULE Spec2Model ----
(***************************************************************************)
(* MindBase: the raw -> derived conversation pipeline (ingestion gateway,  *)
(* deriver, async worker) and the collectors' data normalizer.             *)
(***************************************************************************)
EXTENDS Integers, Sequences, FiniteSets, TLC

\* ------------------------------------------------------------------------
\* Bounds of the model
\* ------------------------------------------------------------------------
\* rows the gateway may insert into raw_conversations
MaxRaw == 3
\* conversations in the list handed to the normalizer
MaxConvs == 2
\* normalize_conversations calls in one run of the normalizer
MaxCalls == 2

\* conversations in a collector's batch
MaxBatch == 3

\* data paths an adapter walks
MaxPaths == 2

\* ------------------------------------------------------------------------
\* Program constants
\* ------------------------------------------------------------------------
\* raw_deriver.py: settings.DERIVER_BATCH_SIZE or 5
DefaultBatchSize == 5
\* raw_deriver.py: settings.DERIVER_MAX_RETRIES or 3
DefaultMaxRetries == 3

NULL == "NULL"
\* datetime.utcnow(): some non-null timestamp
UtcNow == "utcnow"

VARIABLES
    settings,        \* get_settings(): DERIVE_ON_STORE, DERIVER_BATCH_SIZE, DERIVER_MAX_RETRIES
    raw,             \* committed rows of raw_conversations, in inserted_at order
    conv,            \* committed rows of conversations, in creation order
    resp,            \* what the gateway answered for raw row i
    pc,              \* where derive_loop stands
    batch,           \* derive_loop: result.scalars().all() (ids of the selected rows)
    idx,             \* derive_loop: position of `raw` in `for raw in batch`
    processed_any,   \* derive_loop: processed_any
    attempts         \* history: outcomes of the worker's process_raw_conversation calls on row i

wvars == <<settings, raw, conv, resp, pc, batch, idx, processed_any, attempts>>

VARIABLES
    convs,           \* the Conversation objects of the list given to the normalizer
    normalizer,      \* DataNormalizer instance: seen_*_hashes and stats
    source_filter,   \* normalize_conversations(source=...)
    calls            \* history: the normalize_conversations calls made so far

nvars == <<convs, normalizer, source_filter, calls>>

VARIABLES
    args,            \* the arguments of a call of a function outside the pipeline
    ret,             \* what the call returned
    returned,        \* whether the call has returned
    collector        \* the adapter instance: self.conversations and self.stats

fvars == <<args, ret, returned, collector>>

vars == <<wvars, nvars, fvars>>

\* ------------------------------------------------------------------------
\* Settings (apps/api/config.py) and their use in derive_loop
\* ------------------------------------------------------------------------
\* the configurations explored: 0 stands for an unset value (`or` default applies)
SettingsChoices ==
    { [DERIVE_ON_STORE |-> FALSE, DERIVER_BATCH_SIZE |-> 0, DERIVER_MAX_RETRIES |-> 0],
      [DERIVE_ON_STORE |-> FALSE, DERIVER_BATCH_SIZE |-> 1, DERIVER_MAX_RETRIES |-> 3],
      [DERIVE_ON_STORE |-> FALSE, DERIVER_BATCH_SIZE |-> 2, DERIVER_MAX_RETRIES |-> 2],
      [DERIVE_ON_STORE |-> TRUE, DERIVER_BATCH_SIZE |-> 2, DERIVER_MAX_RETRIES |-> 1],
      [DERIVE_ON_STORE |-> TRUE, DERIVER_BATCH_SIZE |-> 0, DERIVER_MAX_RETRIES |-> 0] }

\* batch_size = settings.DERIVER_BATCH_SIZE or 5
batch_size ==
    IF settings.DERIVER_BATCH_SIZE = 0 THEN DefaultBatchSize
    ELSE settings.DERIVER_BATCH_SIZE

\* max_retries = settings.DERIVER_MAX_RETRIES or 3
max_retries ==
    IF settings.DERIVER_MAX_RETRIES = 0 THEN DefaultMaxRetries
    ELSE settings.DERIVER_MAX_RETRIES

\* ------------------------------------------------------------------------
\* Ingestion requests (schemas.ConversationCreate as received by the gateway)
\* ------------------------------------------------------------------------
\* payload.valid: whether ConversationCreate(**payload) accepts the stored payload;
\* content.workspace / metadata.workspace: the value under the "workspace" key of
\* the content and metadata maps (NULL when the key is absent)
Request(source, source_conversation_id, workspace, content_workspace,
        metadata_workspace, metadata, captured_at, valid) ==
    [source |-> source, source_conversation_id |-> source_conversation_id,
     workspace |-> workspace,
     content |-> [workspace |-> content_workspace],
     payload_metadata |-> [workspace |-> metadata_workspace],
     metadata |-> metadata, captured_at |-> captured_at, valid |-> valid]

Requests ==
    { Request("cursor", NULL, NULL, NULL, NULL, "m0", NULL, TRUE),
      Request("cursor", "a", "/w", "/c", NULL, "m1", "t1", TRUE),
      Request("claude-code", "a", "", NULL, "/m", "m0", "t1", TRUE),
      Request("cursor", NULL, NULL, "/c", "/m", "m1", NULL, FALSE) }

\* Python truthiness of an optional string: None and '' are both false
Truthy(x) == x \notin {NULL, ""}

\* a or b
Or(a, b) == IF Truthy(a) THEN a ELSE b

\* storeRaw's workspace precedence: explicit field > content-embedded hint >
\* metadata hint
ResolveWorkspace(req) ==
    Or(req.workspace, Or(req.content.workspace, req.payload_metadata.workspace))

\* class RawConversation: a new row as create_raw_conversation builds it
\* (column defaults: inserted_at = now, processed_at/processing_error NULL, retry_count 0)
RawConversation(id, req, workspace_path) ==
    [id |-> id,
     source |-> req.source,
     source_conversation_id |-> req.source_conversation_id,
     workspace_path |-> workspace_path,
     payload |-> [source |-> req.source,
                  source_conversation_id |-> req.source_conversation_id,
                  workspace |-> req.workspace,
                  content |-> req.content,
                  metadata |-> req.payload_metadata,
                  valid |-> req.valid],
     raw_metadata |-> req.metadata,
     captured_at |-> req.captured_at,
     inserted_at |-> id,
     processed_at |-> NULL,
     processing_error |-> NULL,
     retry_count |-> 0]

\* process_raw_conversation: workspace_path = raw_record.workspace_path or
\* payload.workspace or payload.content.get("workspace") or metadata.get("workspace")
WorkspacePath(r) ==
    Or(r.workspace_path,
       Or(r.payload.workspace,
          Or(r.payload.content.workspace, r.payload.metadata.workspace)))

\* class Conversation: the derived row create_conversation_record builds
Conversation(r) ==
    [raw_id |-> r.id,
     source |-> r.payload.source,
     source_conversation_id |-> r.payload.source_conversation_id,
     workspace_path |-> WorkspacePath(r)]

\* UniqueConstraint("source", "source_conversation_id") on conversations:
\* would inserting row c violate it (NULLs never collide)
UniqueViolation(table, c) ==
    /\ c.source_conversation_id # NULL
    /\ \E i \in 1..Len(table) :
          /\ table[i].source = c.source
          /\ table[i].source_conversation_id = c.source_conversation_id

\* ------------------------------------------------------------------------
\* Deriver (apps/api/services/deriver.py)
\* ------------------------------------------------------------------------
\* process_raw_conversation: how the call on row r ends, given the embedding
\* service's answer and the derived table it flushes into
ProcessOutcome(table, r, embed_ok) ==
    IF ~r.payload.valid THEN "ValidationError"
    ELSE IF ~embed_ok THEN "EmbeddingServiceError"
    ELSE IF UniqueViolation(table, Conversation(r)) THEN "IntegrityError"
    ELSE "ok"

\* MarkDerived without `raw_record.processing_error = None`
MarkDerivedKeepError(r) ==
    [r EXCEPT !.processed_at = UtcNow]

\* MarkDerived without `raw_record.processed_at = datetime.utcnow()`
MarkDerivedNoStamp(r) ==
    [r EXCEPT !.processing_error = NULL]

\* process_raw_conversation, success: raw_record.processed_at = utcnow(),
\* raw_record.processing_error = None
MarkDerived(r) ==
    [r EXCEPT !.processed_at = UtcNow, !.processing_error = NULL]

\* create_conversation_record losing the derived row
create_conversation_record_dropped(table, r) == table

\* crud.create_conversation_record: db.add + flush of the derived row
create_conversation_record(table, r) == Append(table, Conversation(r))

\* crud.create_raw_conversation: db.add + flush of the raw row; raw_conversations
\* carries no uniqueness constraint, so the insert is accepted whatever the key
create_raw_conversation(table, req, workspace_path) ==
    Append(table, RawConversation(Len(table) + 1, req, workspace_path))

\* ------------------------------------------------------------------------
\* Async worker (apps/api/workers/raw_deriver.py)
\* ------------------------------------------------------------------------
Min(a, b) == IF a <= b THEN a ELSE b

IsUnprocessed(r) == r.processed_at = NULL

\* SelectBatch ordered by inserted_at descending
SelectBatchNewest(table, n) ==
    LET pending == SelectSeq(table, IsUnprocessed)
        ids == [i \in 1..Len(pending) |-> pending[i].id]
    IN SubSeq(ids, Len(ids) - Min(Len(ids), n) + 1, Len(ids))

\* select(RawConversation).where(processed_at IS NULL).order_by(inserted_at).limit(n)
SelectBatch(table, n) ==
    LET pending == SelectSeq(table, IsUnprocessed)
        ids == [i \in 1..Len(pending) |-> pending[i].id]
    IN SubSeq(ids, 1, Min(Len(ids), n))

\* MarkFailed writing the error into the row's metadata column as well
MarkFailedTouchMetadata(r, exc) ==
    LET n == r.retry_count + 1
    IN IF n >= max_retries
       THEN [r EXCEPT !.retry_count = n, !.processing_error = exc,
                      !.processed_at = UtcNow, !.raw_metadata = exc]
       ELSE [r EXCEPT !.retry_count = n, !.processing_error = exc,
                      !.raw_metadata = exc]

\* except Exception: retry_count += 1; at the ceiling also processed_at = utcnow()
MarkFailed(r, exc) ==
    LET n == r.retry_count + 1
    IN IF n >= max_retries
       THEN [r EXCEPT !.retry_count = n, !.processing_error = exc,
                      !.processed_at = UtcNow]
       ELSE [r EXCEPT !.retry_count = n, !.processing_error = exc]

\* the position after `raw`: the next row of the batch, or the sleep after the loop
\* (idle_seconds when nothing was processed, 0 otherwise)
AfterRecord(any) ==
    IF idx < Len(batch)
    THEN /\ pc' = "batch"
         /\ idx' = idx + 1
    ELSE /\ pc' = IF any THEN "yield" ELSE "sleep"
         /\ idx' = idx

\* top of `while True`: the select; an empty batch sleeps idle_seconds and continues
Poll ==
    /\ pc = "poll"
    /\ batch' = SelectBatch(raw, batch_size)
    /\ processed_any' = FALSE
    /\ idx' = 1
    /\ pc' = IF batch' = <<>> THEN "sleep" ELSE "batch"
    /\ UNCHANGED <<nvars, fvars, settings, raw, conv, resp, attempts>>

\* one pass of `for raw in batch` whose process_raw_conversation returns
DeriveOk ==
    /\ pc = "batch"
    /\ LET id == batch[idx]
           r == raw[id]
       IN \E embed_ok \in BOOLEAN :
            /\ ProcessOutcome(conv, r, embed_ok) = "ok"
            /\ conv' = create_conversation_record(conv, r)
            /\ raw' = [raw EXCEPT ![id] = MarkDerived(r)]
            /\ attempts' = [attempts EXCEPT ![id] = Append(@, "ok")]
    /\ processed_any' = TRUE
    /\ AfterRecord(TRUE)
    /\ UNCHANGED <<nvars, fvars, settings, resp, batch>>

\* one pass whose process_raw_conversation raises before anything was flushed:
\* the except branch counts the retry and commits
DeriveFail ==
    /\ pc = "batch"
    /\ LET id == batch[idx]
           r == raw[id]
       IN \E embed_ok \in BOOLEAN :
            LET exc == ProcessOutcome(conv, r, embed_ok)
            IN /\ exc \in {"ValidationError", "EmbeddingServiceError"}
               /\ raw' = [raw EXCEPT ![id] = MarkFailed(r, exc)]
               /\ attempts' = [attempts EXCEPT ![id] = Append(@, exc)]
    /\ AfterRecord(processed_any)
    /\ UNCHANGED <<nvars, fvars, settings, conv, resp, batch, processed_any>>

\* one pass whose flush of the derived row raises IntegrityError: the session's
\* transaction is rolled back, so the commit of the except branch raises
\* PendingRollbackError out of the loop and derive_loop ends (finally: dispose)
DeriveCrash ==
    /\ pc = "batch"
    /\ LET id == batch[idx]
           r == raw[id]
       IN \E embed_ok \in BOOLEAN :
            /\ ProcessOutcome(conv, r, embed_ok) = "IntegrityError"
            /\ attempts' = [attempts EXCEPT ![id] = Append(@, "IntegrityError")]
    /\ pc' = "crashed"
    /\ UNCHANGED <<nvars, fvars, settings, raw, conv, resp, batch, idx, processed_any>>

\* asyncio.sleep(idle_seconds) / asyncio.sleep(0) returns
Wake ==
    /\ pc \in {"sleep", "yield"}
    /\ pc' = "poll"
    /\ UNCHANGED <<nvars, fvars, settings, raw, conv, resp, batch, idx, processed_any, attempts>>

\* ------------------------------------------------------------------------
\* Ingestion gateway
\* ------------------------------------------------------------------------
\* queued mode: storeRaw, commit, answer {raw_id, status: "queued"}
StoreRaw ==
    /\ ~settings.DERIVE_ON_STORE
    /\ Len(raw) < MaxRaw
    /\ \E req \in Requests :
          raw' = create_raw_conversation(raw, req, ResolveWorkspace(req))
    /\ resp' = Append(resp, "queued")
    /\ attempts' = Append(attempts, <<>>)
    /\ UNCHANGED <<nvars, fvars, settings, conv, pc, batch, idx, processed_any>>

\* POST /conversations/store (api/routes/conversations.py): the body is validated
\* against ConversationCreate (HTTP 422 otherwise); the handler embeds the text,
\* infers project and topics and calls crud.create_conversation, a function
\* app.crud.conversation does not define; the AttributeError, like a failure of
\* the embedding service, is caught and answered with HTTP 500. The handler reads
\* no setting and writes neither table.
store_conversation ==
    /\ Len(resp) < MaxRaw
    /\ \E req \in Requests, embed_ok \in BOOLEAN :
          resp' = Append(resp, IF ~req.valid THEN "HTTP 422"
                               ELSE IF ~embed_ok THEN "HTTP 500: EmbeddingServiceError"
                               ELSE "HTTP 500: AttributeError")
    /\ UNCHANGED <<nvars, fvars, settings, raw, conv, pc, batch, idx, processed_any, attempts>>

\* ------------------------------------------------------------------------
\* The earlier single-table service (src/app): no raw table, no worker
\* ------------------------------------------------------------------------
\* Conversation(...) as app/crud/conversation.py builds it: the table has no
\* raw_id and no workspace_path column
LegacyConversation(req) ==
    [raw_id |-> NULL,
     source |-> req.source,
     source_conversation_id |-> req.source_conversation_id,
     workspace_path |-> NULL]

\* crud.create_conversation: db.add + commit of the row
create_conversation(table, req) == Append(table, LegacyConversation(req))

\* POST /conversations/store of the earlier service, up to the commit: the body
\* is validated against ConversationCreate (HTTP 422 otherwise); a failure of
\* the embedding service or of the commit (the unique constraint) is caught and
\* answered with HTTP 500; after `await db.commit()` the row is visible and the
\* handler waits in `await db.refresh(...)`, its request not yet answered (NULL)
app_store_conversation ==
    /\ Len(resp) < MaxRaw
    /\ \E req \in Requests, embed_ok \in BOOLEAN :
          IF ~req.valid
          THEN /\ conv' = conv
               /\ resp' = Append(resp, "HTTP 422")
          ELSE IF embed_ok /\ ~UniqueViolation(conv, LegacyConversation(req))
          THEN /\ conv' = create_conversation(conv, req)
               /\ resp' = Append(resp, NULL)
          ELSE /\ conv' = conv
               /\ resp' = Append(resp, "HTTP 500")
    /\ UNCHANGED <<nvars, fvars, settings, raw, pc, batch, idx, processed_any, attempts>>

\* the same handler after the refresh: the returned row fails the validation of
\* the response model (its `metadata` attribute is the table registry, not the
\* conv_metadata column), which is answered with HTTP 500; the row stays committed
app_store_conversation_respond ==
    /\ \E i \in 1..Len(resp) :
          /\ resp[i] = NULL
          /\ resp' = [resp EXCEPT ![i] = "HTTP 500"]
    /\ UNCHANGED <<nvars, fvars, settings, raw, conv, pc, batch, idx, processed_any, attempts>>

\* ------------------------------------------------------------------------
\* Canonical model (collectors/base_collector.py)
\* ------------------------------------------------------------------------
\* a missing datetime (created_at / updated_at is None)
NoTime == -1

\* timestamps count minutes; datetime.date() keeps the day
MinutesPerDay == 1440

DateOf(t) == t \div MinutesPerDay

\* @dataclass Message: content is the sequence of its characters
Message(role, content, timestamp) ==
    [role |-> role, content |-> content, timestamp |-> timestamp]

\* BaseCollector.__init__
NewCollector ==
    [conversations |-> <<>>,
     stats |-> [total_conversations |-> 0, total_messages |-> 0, total_words |-> 0,
                errors |-> 0, warnings |-> 0]]

\* ------------------------------------------------------------------------
\* Data normalizer (libs/collectors/data_normalizer.py)
\* ------------------------------------------------------------------------
\* characters matched by \s and removed by str.strip()
Whitespace == {" ", "\n", "\r", "\t", "\f"}
\* [\x00-\x08\x0B\x0C\x0E-\x1F\x7F], beyond the whitespace among them
Control == {"NUL"}
\* [\u200B\u200C\u200D\uFEFF]
ZeroWidth == {"ZWSP"}

RECURSIVE DropWhile(_, _)
DropWhile(str, set) ==
    IF str # <<>> /\ Head(str) \in set THEN DropWhile(Tail(str), set) ELSE str

\* re.sub(r'\s+', ' ', content)
RECURSIVE CollapseWhitespace(_)
CollapseWhitespace(str) ==
    IF str = <<>> THEN <<>>
    ELSE IF Head(str) \in Whitespace
         THEN <<" ">> \o CollapseWhitespace(DropWhile(str, Whitespace))
         ELSE <<Head(str)>> \o CollapseWhitespace(Tail(str))

\* re.sub(r'[...]', '', content)
RECURSIVE Remove(_, _)
Remove(str, set) ==
    IF str = <<>> THEN <<>>
    ELSE IF Head(str) \in set
         THEN Remove(Tail(str), set)
         ELSE <<Head(str)>> \o Remove(Tail(str), set)

\* re.sub(r'\r\n|\r', '\n', content)
RECURSIVE NormalizeLineEndings(_)
NormalizeLineEndings(str) ==
    IF str = <<>> THEN <<>>
    ELSE IF Head(str) = "\r"
         THEN IF Len(str) >= 2 /\ str[2] = "\n"
              THEN <<"\n">> \o NormalizeLineEndings(Tail(Tail(str)))
              ELSE <<"\n">> \o NormalizeLineEndings(Tail(str))
         ELSE <<Head(str)>> \o NormalizeLineEndings(Tail(str))

Reverse(str) == [i \in 1..Len(str) |-> str[Len(str) + 1 - i]]

\* str.strip()
Strip(str) ==
    Reverse(DropWhile(Reverse(DropWhile(str, Whitespace)), Whitespace))

\* re.sub(r'\n{3,}', '\n\n', content)
RECURSIVE CollapseNewlines(_)
CollapseNewlines(str) ==
    IF str = <<>> THEN <<>>
    ELSE IF Head(str) = "\n"
         THEN LET rest == DropWhile(str, {"\n"})
                  run == Len(str) - Len(rest)
              IN (IF run >= 3 THEN <<"\n", "\n">> ELSE SubSeq(str, 1, run))
                 \o CollapseNewlines(rest)
         ELSE <<Head(str)>> \o CollapseNewlines(Tail(str))

\* _clean_content: the content_patterns in their order, strip, newline runs
clean_content(content) ==
    IF content = <<>> THEN content
    ELSE LET p1 == CollapseWhitespace(content)
             p2 == Remove(p1, Control)
             p3 == NormalizeLineEndings(p2)
             p4 == Remove(p3, ZeroWidth)
         IN CollapseNewlines(Strip(p4))

UpperCase ==
    <<"A", "B", "C", "D", "E", "F", "G", "H", "I", "J", "K", "L", "M",
      "N", "O", "P", "Q", "R", "S", "T", "U", "V", "W", "X", "Y", "Z">>

LowerCase ==
    <<"a", "b", "c", "d", "e", "f", "g", "h", "i", "j", "k", "l", "m",
      "n", "o", "p", "q", "r", "s", "t", "u", "v", "w", "x", "y", "z">>

\* str.lower() of one character
LowerOf ==
    [ch \in {UpperCase[i] : i \in DOMAIN UpperCase} |->
        LowerCase[CHOOSE i \in DOMAIN UpperCase : UpperCase[i] = ch]]

LowerChar(ch) == IF ch \in DOMAIN LowerOf THEN LowerOf[ch] ELSE ch

\* the characters of a str, one by one
Chars(str) == [i \in 1..Len(str) |-> SubSeq(str, i, i)]

\* str.lower() of a role
RECURSIVE Lower(_)
Lower(role) ==
    IF role = "" THEN "" ELSE LowerChar(Head(role)) \o Lower(Tail(role))

\* str.strip() of a role
RECURSIVE StripLeft(_)
StripLeft(role) ==
    IF role # "" /\ Head(role) \in Whitespace THEN StripLeft(Tail(role)) ELSE role

RECURSIVE StripRight(_)
StripRight(role) ==
    IF role # "" /\ SubSeq(role, Len(role), Len(role)) \in Whitespace
    THEN StripRight(SubSeq(role, 1, Len(role) - 1))
    ELSE role

StripRole(role) == StripRight(StripLeft(role))

\* self.role_mappings, in dict order
role_mappings ==
    << [standard |-> "user",
        variations |-> {"user", "human", "me", "question", "prompt", "input"}],
       [standard |-> "assistant",
        variations |-> {"assistant", "ai", "bot", "claude", "chatgpt", "gpt", "cursor",
                        "windsurf", "response", "completion", "output"}],
       [standard |-> "system",
        variations |-> {"system", "instruction", "context"}] >>

\* _normalize_role: the first mapping that lists role.lower().strip(), else assistant
normalize_role(role) ==
    LET r == StripRole(Lower(role))
        hits == {k \in 1..Len(role_mappings) : r \in role_mappings[k].variations}
    IN IF hits # {}
       THEN role_mappings[CHOOSE k \in hits : \A j \in hits : k <= j].standard
       ELSE "assistant"

\* _normalize_message, role part: assigned only when it differs from the lowercased role
StandardizeRole(message) ==
    IF normalize_role(Lower(message.role)) # Lower(message.role)
    THEN [message EXCEPT !.role = normalize_role(Lower(message.role))]
    ELSE message

\* _normalize_message, content part
CleanMessage(message) == [message EXCEPT !.content = clean_content(@)]

\* _normalize_message, validation: None when no content is left
Validated(message) ==
    [msg |-> message, ok |-> ~(message.content = <<>> \/ Strip(message.content) = <<>>)]

\* _normalize_message: the message as mutated in place, and whether it is returned
normalize_message(message) == Validated(CleanMessage(StandardizeRole(message)))

\* _get_message_hash: sha256 of "role:content:timestamp"; the hashed text, character
\* by character, stands for the digest (the isoformat of the timestamp is one token)
get_message_hash(message) ==
    Chars(message.role) \o <<":">> \o message.content \o <<":", ToString(message.timestamp)>>

RECURSIVE RoleContentText(_)
RoleContentText(messages) ==
    IF messages = <<>> THEN <<>>
    ELSE Chars(Head(messages).role) \o <<":">> \o Head(messages).content \o <<":">>
         \o RoleContentText(Tail(messages))

\* _get_conversation_hash: sha256 of "source:" + "role:content:"... + creation date
get_conversation_hash(conversation) ==
    Chars(conversation.source) \o <<":">> \o RoleContentText(conversation.messages)
        \o <<ToString(DateOf(conversation.created_at))>>

\* list.sort(key=lambda m: m.timestamp): stable
InsertByTimestamp(sorted, m) ==
    LET k == Cardinality({i \in 1..Len(sorted) : sorted[i].timestamp <= m.timestamp})
    IN SubSeq(sorted, 1, k) \o <<m>> \o SubSeq(sorted, k + 1, Len(sorted))

RECURSIVE SortByTimestamp(_)
SortByTimestamp(messages) ==
    IF messages = <<>> THEN <<>>
    ELSE InsertByTimestamp(SortByTimestamp(SubSeq(messages, 1, Len(messages) - 1)),
                           messages[Len(messages)])

\* _normalize_title: limits of an existing and of a generated title
TitleMaxLen == 200
TitleCutLen == 197
GeneratedTitleLen == 100

Ellipsis == <<".", ".", ".">>

normalize_title(conversation) ==
    IF conversation.title # <<>> /\ Strip(conversation.title) # <<>>
    THEN LET title == clean_content(conversation.title)
         IN IF Len(title) > TitleMaxLen
            THEN SubSeq(title, 1, TitleCutLen) \o Ellipsis
            ELSE title
    ELSE LET users == {i \in 1..Len(conversation.messages) :
                          conversation.messages[i].role = "user"}
         IN IF users # {}
            THEN LET msg == conversation.messages[CHOOSE i \in users : \A j \in users : i <= j]
                 IN SubSeq(msg.content, 1, Min(GeneratedTitleLen, Len(msg.content)))
                    \o (IF Len(msg.content) > GeneratedTitleLen THEN Ellipsis ELSE <<>>)
            ELSE Chars(conversation.source) \o Chars(" conversation")

\* one round of the message loop: the message is kept unless it is invalid or
\* its hash has been seen; either way it has been normalized in place (all)
Retain(scan, norm_msg) ==
    IF norm_msg.ok /\ get_message_hash(norm_msg.msg) \notin scan.seen
    THEN [seen |-> scan.seen \cup {get_message_hash(norm_msg.msg)},
          kept |-> Append(scan.kept, norm_msg.msg),
          all |-> Append(scan.all, norm_msg.msg)]
    ELSE [scan EXCEPT !.all = Append(@, norm_msg.msg)]

\* the loop over conversation.messages in _normalize_conversation
RECURSIVE ScanMessages(_, _)
ScanMessages(messages, scan) ==
    IF messages = <<>> THEN scan
    ELSE ScanMessages(Tail(messages), Retain(scan, normalize_message(Head(messages))))

\* conversation.messages = normalized_messages
WithMessages(conversation, normalized_messages) ==
    [conversation EXCEPT !.messages = normalized_messages]

\* created_at / updated_at always taken from the first / last message
FixTimestampsBoth(conversation) ==
    [conversation EXCEPT
        !.created_at = conversation.messages[1].timestamp,
        !.updated_at = conversation.messages[Len(conversation.messages)].timestamp]

\* created_at / updated_at taken from the first / last message when missing
FixTimestamps(conversation) ==
    [conversation EXCEPT
        !.created_at = IF @ = NoTime THEN conversation.messages[1].timestamp ELSE @,
        !.updated_at = IF @ = NoTime
                       THEN conversation.messages[Len(conversation.messages)].timestamp
                       ELSE @]

\* conversation.title = self._normalize_title(conversation)
WithTitle(conversation) == [conversation EXCEPT !.title = normalize_title(conversation)]

\* the normalization metadata
Marked(conversation, now) ==
    [conversation EXCEPT !.metadata.normalized = TRUE,
                         !.metadata.normalization_timestamp = now]

\* _normalize_conversation after the message loop
AfterScan(conversation, scan, now) ==
    IF scan.kept = <<>>
    THEN [conv |-> WithMessages(conversation, scan.all), seen |-> scan.seen, ok |-> FALSE]
    ELSE [conv |-> Marked(WithTitle(FixTimestamps(
                       WithMessages(conversation, SortByTimestamp(scan.kept)))), now),
          seen |-> scan.seen, ok |-> TRUE]

\* _normalize_conversation: the conversation as mutated, the message hashes seen,
\* and whether the conversation is returned (ok) or None
normalize_conversation(conversation, seen, now) ==
    IF conversation.messages = <<>>
    THEN [conv |-> conversation, seen |-> seen, ok |-> FALSE]
    ELSE AfterScan(conversation,
                   ScanMessages(conversation.messages,
                                [seen |-> seen, kept |-> <<>>, all |-> <<>>]),
                   now)

\* one round of the loop of normalize_conversations, on object i of the heap:
\* r is what _normalize_conversation did and returned
Collect(run, i, r) ==
    IF ~r.ok
    THEN [heap |-> [run.heap EXCEPT ![i] = r.conv],
          nz |-> [run.nz EXCEPT !.seen_message_hashes = r.seen,
                                !.stats.invalid_removed = @ + 1],
          out |-> run.out]
    ELSE IF get_conversation_hash(r.conv) \notin run.nz.seen_conversation_hashes
    THEN [heap |-> [run.heap EXCEPT ![i] = r.conv],
          nz |-> [run.nz EXCEPT !.seen_message_hashes = r.seen,
                                !.seen_conversation_hashes =
                                    @ \cup {get_conversation_hash(r.conv)}],
          out |-> Append(run.out, i)]
    ELSE [heap |-> [run.heap EXCEPT ![i] = r.conv],
          nz |-> [run.nz EXCEPT !.seen_message_hashes = r.seen,
                                !.stats.duplicates_removed = @ + 1],
          out |-> run.out]

\* the loop of normalize_conversations over the list `todo` of objects of the heap
RECURSIVE NormalizeList(_, _, _, _)
NormalizeList(run, todo, source, now) ==
    IF todo = <<>> THEN run
    ELSE IF Truthy(source) /\ run.heap[Head(todo)].source # source
         THEN NormalizeList(run, Tail(todo), source, now)
         ELSE NormalizeList(
                  Collect(run, Head(todo),
                          normalize_conversation(run.heap[Head(todo)],
                                                 run.nz.seen_message_hashes, now)),
                  Tail(todo), source, now)

\* DataNormalizer.__init__ (and the state reset_stats leaves)
NewDataNormalizer ==
    [seen_conversation_hashes |-> {},
     seen_message_hashes |-> {},
     stats |-> [total_input |-> 0, total_output |-> 0,
                duplicates_removed |-> 0, invalid_removed |-> 0]]

\* normalize_conversations(conversations, source): the list holds the objects
\* heap[i], i in arg; they are mutated in place and the returned list shares them
normalize_conversations(heap, arg, source, nz, now) ==
    LET r == NormalizeList([heap |-> heap,
                            nz |-> [nz EXCEPT !.stats.total_input = Len(arg)],
                            out |-> <<>>],
                           arg, source, now)
    IN [r EXCEPT !.nz.stats.total_output = Len(r.out)]

\* @dataclass Conversation of the collectors (the object is its place in convs)
CollectedConversation(source, title, messages, created_at) ==
    [source |-> source, title |-> title, messages |-> messages,
     created_at |-> created_at, updated_at |-> NoTime,
     metadata |-> [normalized |-> FALSE, normalization_timestamp |-> NoTime]]

\* message lists an adapter hands over
TwoTurns == <<Message("user", <<"a">>, 0), Message("assistant", <<"b">>, 1)>>
TwoTurnsLater == <<Message("user", <<"a">>, 0), Message("assistant", <<"b">>, 2)>>
ControlChars == <<Message("User", <<"a", " ", "NUL", " ", "b">>, 0)>>
Blank == <<Message("bot", <<" ", "ZWSP">>, 1)>>
Variants ==
    <<Message("human", <<"b", "\r", "\n", "\n", "\n", "a">>, 2), Message(" AI ", <<"a">>, 1)>>

\* conversations an adapter hands over
Collected ==
    { CollectedConversation("cursor", <<>>, TwoTurns, 1),
      CollectedConversation("chatgpt", <<>>, TwoTurns, 1),
      CollectedConversation("cursor", <<>>, TwoTurnsLater, 1),
      CollectedConversation("cursor", <<>>, TwoTurns, MinutesPerDay),
      CollectedConversation("cursor", <<>>, TwoTurns, NoTime),
      CollectedConversation("cursor", <<"t", "\t", "ZWSP", " ", "t">>, ControlChars, NoTime),
      CollectedConversation("cursor", <<>>, Blank, 1),
      CollectedConversation("chatgpt", <<" ">>, Variants, NoTime),
      CollectedConversation("cursor", <<>>, <<>>, 1),
      [CollectedConversation("chatgpt", <<>>, TwoTurns, NoTime) EXCEPT !.updated_at = 7],
      [CollectedConversation("chatgpt", <<>>, TwoTurnsLater, 5) EXCEPT !.updated_at = 7] }

PoolSeqs(n) == UNION {[1..k -> Collected] : k \in 1..n}

\* no normalizer in use (the API and the worker never call it)
NormIdle ==
    /\ convs = <<>>
    /\ normalizer = NewDataNormalizer
    /\ source_filter = "NULL"
    /\ calls = <<>>

\* no function call under way
NoCall ==
    /\ collector = NewCollector
    /\ args = <<>>
    /\ ret = <<>>
    /\ returned = FALSE

ValuesOf(heap, list) == [k \in 1..Len(list) |-> heap[list[k]]]

\* one call normalizer.normalize_conversations(arg, source_filter)
Normalize(arg) ==
    LET r == normalize_conversations(convs, arg, source_filter, normalizer, Len(calls) + 1)
    IN /\ Len(calls) < MaxCalls
       /\ convs' = r.heap
       /\ normalizer' = r.nz
       /\ calls' = Append(calls,
                     [arg |-> arg,
                      before |-> ValuesOf(convs, arg),
                      fresh |-> normalizer.seen_conversation_hashes = {}
                                /\ normalizer.seen_message_hashes = {},
                      out |-> r.out,
                      after |-> ValuesOf(r.heap, r.out)])
       /\ UNCHANGED <<source_filter, wvars, fvars>>

\* the caller normalizes the list the adapters produced
NormalizeInput ==
    Normalize([k \in 1..Len(convs) |-> k])

\* the caller normalizes the list the last call returned
NormalizeOutput ==
    /\ calls # <<>>
    /\ Normalize(calls[Len(calls)].out)

\* normalizer.reset_stats()
reset_stats ==
    /\ normalizer # NewDataNormalizer
    /\ normalizer' = NewDataNormalizer
    /\ UNCHANGED <<convs, source_filter, calls, wvars, fvars>>


\* ------------------------------------------------------------------------
\* Merging (libs/collectors/data_normalizer.py, merge_conversations)
\* ------------------------------------------------------------------------
\* the 1800 seconds of _should_merge, in minutes
MergeWindow == 30

\* content[:100]
BoundaryLen == 100

\* the similarity threshold 0.7, as a fraction
SimilarityNum == 7
SimilarityDen == 10

\* @dataclass Conversation with the fields merging reads; tags as a set, since
\* _merge_tags returns list(set(...)) in no particular order
FullConversation(id, source, thread_id, title, messages, created_at, updated_at, tags) ==
    [id |-> id, source |-> source, thread_id |-> thread_id, title |-> title,
     messages |-> messages, created_at |-> created_at, updated_at |-> updated_at,
     project |-> "NULL", tags |-> tags, metadata |-> [normalized |-> TRUE]]

\* str[:n]
Slice(str, n) == SubSeq(str, 1, Min(n, Len(str)))

\* str.lower() of a text
LowerText(str) == [i \in 1..Len(str) |-> LowerChar(str[i])]

\* the positions of str where a word of str.split() starts
WordStarts(str) ==
    {i \in 1..Len(str) : str[i] \notin Whitespace /\ (i = 1 \/ str[i - 1] \in Whitespace)}

\* the position where the word starting at i ends
WordEnd(str, i) ==
    CHOOSE j \in i..Len(str) :
        /\ \A k \in i..j : str[k] \notin Whitespace
        /\ j = Len(str) \/ str[j + 1] \in Whitespace

\* set(str.split())
Words(str) == {SubSeq(str, i, WordEnd(str, i)) : i \in WordStarts(str)}

\* len(intersection) / len(union) of two word sets, as a fraction
Jaccard(words1, words2) ==
    IF words1 = {} \/ words2 = {} THEN [num |-> 0, den |-> 1]
    ELSE [num |-> Cardinality(words1 \cap words2), den |-> Cardinality(words1 \cup words2)]

\* _calculate_similarity
calculate_similarity(text1, text2) == Jaccard(Words(LowerText(text1)), Words(LowerText(text2)))

\* similarity > 0.7
ExceedsThreshold(sim) == sim.num * SimilarityDen > SimilarityNum * sim.den

\* _should_merge with the window's end excluded
should_merge_exclusive(conv1, conv2) ==
    /\ conv1.source = conv2.source
    /\ conv2.created_at - conv1.updated_at < MergeWindow
    /\ \/ /\ conv1.messages # <<>>
          /\ conv2.messages # <<>>
          /\ ExceedsThreshold(calculate_similarity(
                 Slice(conv1.messages[Len(conv1.messages)].content, BoundaryLen),
                 Slice(conv2.messages[1].content, BoundaryLen)))
       \/ conv1.thread_id \notin {"NULL", ""} /\ conv1.thread_id = conv2.thread_id

\* _should_merge
should_merge(conv1, conv2) ==
    IF conv1.source # conv2.source THEN FALSE
    ELSE IF conv2.created_at - conv1.updated_at > MergeWindow THEN FALSE
    ELSE IF /\ conv1.messages # <<>>
            /\ conv2.messages # <<>>
            /\ ExceedsThreshold(calculate_similarity(
                   Slice(conv1.messages[Len(conv1.messages)].content, BoundaryLen),
                   Slice(conv2.messages[1].content, BoundaryLen)))
         THEN TRUE
    ELSE conv1.thread_id \notin {"NULL", ""} /\ conv1.thread_id = conv2.thread_id

\* all_messages.extend(conv.messages) over the group
RECURSIVE AllMessages(_)
AllMessages(conversations) ==
    IF conversations = <<>> THEN <<>>
    ELSE Head(conversations).messages \o AllMessages(Tail(conversations))

\* the first message of every message hash, in order
RECURSIVE UniqueMessages(_, _)
UniqueMessages(messages, seen_hashes) ==
    IF messages = <<>> THEN <<>>
    ELSE IF get_message_hash(Head(messages)) \in seen_hashes
         THEN UniqueMessages(Tail(messages), seen_hashes)
         ELSE <<Head(messages)>>
              \o UniqueMessages(Tail(messages),
                                seen_hashes \cup {get_message_hash(Head(messages))})

\* title.startswith(source)
StartsWith(title, source) ==
    /\ Len(title) >= Len(source)
    /\ \A i \in 1..Len(source) : title[i] = Chars(source)[i]

\* _generate_merged_title
generate_merged_title(conversations) ==
    IF \E k \in 1..Len(conversations) :
           conversations[k].title # <<>>
           /\ ~StartsWith(conversations[k].title, conversations[k].source)
    THEN conversations[CHOOSE k \in 1..Len(conversations) :
                          /\ conversations[k].title # <<>>
                          /\ ~StartsWith(conversations[k].title, conversations[k].source)
                          /\ \A j \in 1..(k - 1) :
                                 \/ conversations[j].title = <<>>
                                 \/ StartsWith(conversations[j].title,
                                               conversations[j].source)].title
    ELSE conversations[1].title

\* _merge_tags keeping the tags of the first conversation only
merge_tags_of_first(conversations) == conversations[1].tags

\* _merge_tags
merge_tags(conversations) == UNION {conversations[k].tags : k \in 1..Len(conversations)}

\* dict.update
Update(d1, d2) ==
    [k \in DOMAIN d1 \cup DOMAIN d2 |-> IF k \in DOMAIN d2 THEN d2[k] ELSE d1[k]]

RECURSIVE UpdateAll(_, _)
UpdateAll(d, conversations) ==
    IF conversations = <<>> THEN d
    ELSE UpdateAll(Update(d, Head(conversations).metadata), Tail(conversations))

\* _merge_metadata
merge_metadata(conversations) ==
    Update(UpdateAll(<<>>, conversations),
           [merged |-> TRUE,
            merged_count |-> Len(conversations),
            merged_ids |-> [k \in 1..Len(conversations) |-> conversations[k].id]])

\* _merge_conversation_group (called with a non-empty group only)
merge_conversation_group(conversations) ==
    IF Len(conversations) = 1 THEN conversations[1]
    ELSE [id |-> conversations[1].id,
          source |-> conversations[1].source,
          title |-> generate_merged_title(conversations),
          messages |-> SortByTimestamp(UniqueMessages(AllMessages(conversations), {})),
          created_at |-> conversations[1].created_at,
          updated_at |-> conversations[Len(conversations)].updated_at,
          thread_id |-> conversations[1].thread_id,
          project |-> conversations[1].project,
          tags |-> merge_tags(conversations),
          metadata |-> merge_metadata(conversations)]

\* conversations.sort(key=lambda c: c.created_at): stable
InsertByCreatedAt(sorted, c) ==
    SubSeq(sorted, 1,
           Cardinality({i \in 1..Len(sorted) : sorted[i].created_at <= c.created_at}))
    \o <<c>>
    \o SubSeq(sorted,
              Cardinality({i \in 1..Len(sorted) : sorted[i].created_at <= c.created_at}) + 1,
              Len(sorted))

RECURSIVE SortByCreatedAt(_)
SortByCreatedAt(conversations) ==
    IF conversations = <<>> THEN <<>>
    ELSE InsertByCreatedAt(SortByCreatedAt(SubSeq(conversations, 1, Len(conversations) - 1)),
                           conversations[Len(conversations)])

\* the loop of merge_conversations over conversations[1:]
RECURSIVE MergeLoop(_, _, _)
MergeLoop(rest, current_group, merged) ==
    IF rest = <<>> THEN Append(merged, merge_conversation_group(current_group))
    ELSE IF should_merge(current_group[Len(current_group)], Head(rest))
         THEN MergeLoop(Tail(rest), Append(current_group, Head(rest)), merged)
         ELSE MergeLoop(Tail(rest), <<Head(rest)>>,
                        Append(merged, merge_conversation_group(current_group)))

\* merge_conversations, on the list once sorted in place
merge_conversations(sorted) ==
    IF sorted = <<>> THEN <<>>
    ELSE MergeLoop(Tail(sorted), <<sorted[1]>>, <<>>)

\* ------------------------------------------------------------------------
\* Collectors (collectors/base_collector.py)
\* ------------------------------------------------------------------------
RECURSIVE Sum(_)
Sum(numbers) == IF numbers = <<>> THEN 0 ELSE Head(numbers) + Sum(Tail(numbers))

\* Conversation.get_word_count: len(msg.content.split()) over the messages
get_word_count(conversation) ==
    Sum([k \in 1..Len(conversation.messages) |->
            Cardinality(WordStarts(conversation.messages[k].content))])

\* BaseCollector.update_stats
update_stats(stats, conversations) ==
    [stats EXCEPT
        !.total_conversations = Len(conversations),
        !.total_messages = Sum([k \in 1..Len(conversations) |-> Len(conversations[k].messages)]),
        !.total_words = Sum([k \in 1..Len(conversations) |-> get_word_count(conversations[k])])]

\* BaseCollector._get_conversation_hash: sha256 of "role:content:"... (the hashed
\* text stands for the digest)
BaseCollector_get_conversation_hash(conversation) == RoleContentText(conversation.messages)

\* the loop of deduplicate_conversations
RECURSIVE DedupLoop(_, _, _, _)
DedupLoop(conversations, seen_ids, seen_hashes, unique_conversations) ==
    IF conversations = <<>> THEN unique_conversations
    ELSE IF Head(conversations).id \in seen_ids
         THEN DedupLoop(Tail(conversations), seen_ids, seen_hashes, unique_conversations)
    ELSE IF BaseCollector_get_conversation_hash(Head(conversations)) \in seen_hashes
         THEN DedupLoop(Tail(conversations), seen_ids, seen_hashes, unique_conversations)
    ELSE DedupLoop(Tail(conversations),
                   seen_ids \cup {Head(conversations).id},
                   seen_hashes \cup {BaseCollector_get_conversation_hash(Head(conversations))},
                   Append(unique_conversations, Head(conversations)))

\* deduplicate_conversations with the ids and hashes of dropped conversations
\* remembered as well
RECURSIVE DedupLoopRememberAll(_, _, _, _)
DedupLoopRememberAll(conversations, seen_ids, seen_hashes, unique_conversations) ==
    IF conversations = <<>> THEN unique_conversations
    ELSE DedupLoopRememberAll(
             Tail(conversations),
             seen_ids \cup {Head(conversations).id},
             seen_hashes \cup {BaseCollector_get_conversation_hash(Head(conversations))},
             IF Head(conversations).id \in seen_ids
                \/ BaseCollector_get_conversation_hash(Head(conversations)) \in seen_hashes
             THEN unique_conversations
             ELSE Append(unique_conversations, Head(conversations)))

deduplicate_remember_all(conversations) == DedupLoopRememberAll(conversations, {}, {}, <<>>)

\* BaseCollector.deduplicate_conversations
deduplicate_conversations(conversations) == DedupLoop(conversations, {}, {}, <<>>)

\* BaseCollector.filter_by_date
filter_by_date(conversations, since_date) ==
    IF since_date = NoTime THEN conversations
    ELSE LET Recent(c) ==
                 \/ c.updated_at # NoTime /\ c.updated_at >= since_date
                 \/ c.created_at # NoTime /\ c.created_at >= since_date
         IN SelectSeq(conversations, Recent)

\* ------------------------------------------------------------------------
\* Adapters (collectors/cursor_collector.py, collectors/windsurf_collector.py)
\* ------------------------------------------------------------------------
\* the storage an adapter walks: a data path is [in_workspace_storage, is_dir,
\* files]; a file is [readable, items]; an item (row or JSON entry) is
\* [parses, conv]

\* _parse_database_row / _parse_json_conversation over the items of one file:
\* an item that fails to parse gives None and is left out
RECURSIVE ParseItems(_)
ParseItems(items) ==
    IF items = <<>> THEN <<>>
    ELSE (IF Head(items).parses THEN <<Head(items).conv>> ELSE <<>>)
         \o ParseItems(Tail(items))

\* _collect_from_sqlite / _collect_from_json: a file that cannot be opened or
\* read is logged and gives no conversations
collect_from_file(file) == IF file.readable THEN ParseItems(file.items) ELSE <<>>

RECURSIVE CollectFromFiles(_)
CollectFromFiles(files) ==
    IF files = <<>> THEN <<>>
    ELSE collect_from_file(Head(files)) \o CollectFromFiles(Tail(files))

\* the loop of collect over get_data_paths(): all_conversations so far, or the
\* exception that left the loop. storage_path.iterdir() in
\* _collect_from_workspace_storage is outside any try
RECURSIVE CollectLoop(_, _)
CollectLoop(paths, all_conversations) ==
    IF paths = <<>> THEN [raised |-> "NULL", conversations |-> all_conversations]
    ELSE IF Head(paths).in_workspace_storage /\ ~Head(paths).is_dir
         THEN [raised |-> "NotADirectoryError", conversations |-> <<>>]
         ELSE CollectLoop(Tail(paths),
                          all_conversations \o CollectFromFiles(Head(paths).files))

\* CursorCollector._collect_from_logs: a log file that cannot be read is
\* logged and gives nothing; the Windsurf adapter reads no logs
collect_from_logs(adapter, logs) ==
    IF adapter = "cursor" THEN CollectFromFiles(logs) ELSE <<>>

\* collect(since_date): the loop, the log files, then deduplicate_conversations
\* and filter_by_date
collect(adapter, paths, logs, since_date) ==
    IF CollectLoop(paths, <<>>).raised # "NULL"
    THEN CollectLoop(paths, <<>>)
    ELSE [raised |-> "NULL",
          conversations |->
              filter_by_date(
                  deduplicate_conversations(CollectLoop(paths, <<>>).conversations
                                                \o collect_from_logs(adapter, logs)),
                  since_date)]

\* the end of collect: update_stats and self.conversations; an exception
\* leaves the collector as it was
AfterCollect(state, result) ==
    IF result.raised # "NULL" THEN state
    ELSE [state EXCEPT !.stats = update_stats(@, result.conversations),
                       !.conversations = result.conversations]

\* datetime.now(timezone.utc) at the time a message is parsed
ParseTime == 9

\* the role lists of _parse_message, per adapter: those giving user, those
\* giving assistant, and whether any other role but system gives assistant
RoleTable(adapter) ==
    CASE adapter = "cursor" ->
             [user |-> {"human", "user", "prompt"},
              assistant |-> {"ai", "assistant", "completion", "response"},
              default_assistant |-> FALSE]
      [] adapter = "windsurf" ->
             [user |-> {"human", "user", "prompt"},
              assistant |-> {"ai", "assistant", "cascade", "codeium", "completion"},
              default_assistant |-> FALSE]
      [] adapter = "claude-desktop" ->
             [user |-> {"human", "user", "me"},
              assistant |-> {"claude", "assistant", "ai", "bot"},
              default_assistant |-> TRUE]

\* the role normalization of _parse_message, on the lowercased role
AdapterRole(adapter, role) ==
    IF role \in RoleTable(adapter).user THEN "user"
    ELSE IF role \in RoleTable(adapter).assistant THEN "assistant"
    ELSE IF RoleTable(adapter).default_assistant /\ role # "system" THEN "assistant"
    ELSE role

\* msg_data.get('role') or msg_data.get('type') or 'user' (for Claude Desktop
\* the second key is 'sender')
RawRole(msg_data) ==
    IF msg_data.role \notin {"NULL", ""} THEN msg_data.role
    ELSE IF msg_data.type \notin {"NULL", ""} THEN msg_data.type
    ELSE "user"

\* _parse_message: the Message built, or None (ok false)
parse_message(adapter, msg_data) ==
    IF msg_data.kind = "str"
    THEN [ok |-> TRUE, msg |-> Message("user", msg_data.content, ParseTime)]
    ELSE IF msg_data.content = <<>>
    THEN [ok |-> FALSE, msg |-> <<>>]
    ELSE [ok |-> TRUE,
          msg |-> Message(AdapterRole(adapter, Lower(RawRole(msg_data))),
                          msg_data.content,
                          IF msg_data.timestamp # NoTime THEN msg_data.timestamp
                          ELSE ParseTime)]

\* ------------------------------------------------------------------------
\* Synthesized identifiers (collectors/base_collector.py, __post_init__)
\* ------------------------------------------------------------------------
\* str(x) inside an f-string: None prints as "None"
StrOrNone(x) == IF x = "NULL" THEN "None" ELSE x

\* str(datetime) of a UTC datetime; None prints as "None"
StrTime(t) == IF t = NoTime THEN "None" ELSE ToString(t)

\* sha256(text).hexdigest()[:16]: the hashed text stands for the digest
Sha16(text) == text

\* the text Message.__post_init__ hashes, with the timestamp hashed as well
MessageIdTextWithTimestamp(m) ==
    Chars(m.role) \o <<":">> \o m.content \o <<":", ToString(m.timestamp)>>

\* f"{self.role}:{self.content}"
MessageIdText(m) == Chars(m.role) \o <<":">> \o m.content

\* Message.__post_init__: a missing or empty message_id is synthesized
Message_post_init(m) ==
    IF m.message_id \in {"NULL", ""}
    THEN [m EXCEPT !.message_id = <<"msg_">> \o Sha16(MessageIdText(m))]
    ELSE m

\* f"{self.source}:{self.thread_id}:{self.created_at}"
ConversationIdText(c) ==
    c.source \o ":" \o StrOrNone(c.thread_id) \o ":" \o StrTime(c.created_at)

\* Conversation.__post_init__: a missing or empty id is synthesized
Conversation_post_init(c) ==
    IF c.id \in {"NULL", ""}
    THEN [c EXCEPT !.id = "conv_" \o Sha16(ConversationIdText(c))]
    ELSE c

\* ------------------------------------------------------------------------
\* Topic / project classifier (apps/api/services/classifier.py)
\* ------------------------------------------------------------------------
\* texts are sequences of characters; topic names are atoms
TOPIC_KEYWORDS ==
    <<[topic |-> "Docker-First Development",
       keywords |-> <<<<"d", "o", "c", "k", "e", "r">>,
                      <<"d", "o", "c", "k", "e", "r", "-", "c", "o", "m", "p", "o", "s", "e">>,
                      <<"c", "o", "n", "t", "a", "i", "n", "e", "r">>,
                      <<"w", "o", "r", "k", "s", "p", "a", "c", "e">>,
                      <<"v", "o", "l", "u", "m", "e">>>>],
      [topic |-> "Turborepo Monorepo",
       keywords |-> <<<<"t", "u", "r", "b", "o", "r", "e", "p", "o">>,
                      <<"p", "n", "p", "m">>,
                      <<"m", "o", "n", "o", "r", "e", "p", "o">>,
                      <<"w", "o", "r", "k", "s", "p", "a", "c", "e">>,
                      <<"p", "a", "c", "k", "a", "g", "e", ".", "j", "s", "o", "n">>>>],
      [topic |-> "Supabase Self-Host",
       keywords |-> <<<<"s", "u", "p", "a", "b", "a", "s", "e">>,
                      <<"r", "e", "a", "l", "t", "i", "m", "e">>,
                      <<"e", "d", "g", "e", " ", "f", "u", "n", "c", "t", "i", "o", "n">>,
                      <<"k", "o", "n", "g">>,
                      <<"a", "u", "t", "h">>>>],
      [topic |-> "Multi-Tenancy",
       keywords |-> <<<<"m", "u", "l", "t", "i", "-", "t", "e", "n", "a", "n", "t">>,
                      <<"t", "e", "n", "a", "n", "t">>,
                      <<"o", "r", "g", "a", "n", "i", "z", "a", "t", "i", "o", "n", "_", "i", "d">>,
                      <<"r", "o", "w", " ", "l", "e", "v", "e", "l", " ", "s", "e", "c", "u", "r", "i", "t", "y">>,
                      <<"r", "l", "s">>>>],
      [topic |-> "Testing Strategy",
       keywords |-> <<<<"u", "n", "i", "t", " ", "t", "e", "s", "t">>,
                      <<"i", "n", "t", "e", "g", "r", "a", "t", "i", "o", "n", " ", "t", "e", "s", "t">>,
                      <<"p", "l", "a", "y", "w", "r", "i", "g", "h", "t">>,
                      <<"v", "i", "t", "e", "s", "t">>,
                      <<"c", "o", "v", "e", "r", "a", "g", "e">>>>],
      [topic |-> "SuperClaude Framework",
       keywords |-> <<<<"s", "u", "p", "e", "r", "c", "l", "a", "u", "d", "e">>,
                      <<"p", "m", " ", "a", "g", "e", "n", "t">>,
                      <<"m", "c", "p">>,
                      <<"s", "k", "i", "l", "l">>,
                      <<"p", "e", "r", "s", "o", "n", "a">>>>],
      [topic |-> "AlmaLinux HomeServer",
       keywords |-> <<<<"a", "l", "m", "a", "l", "i", "n", "u", "x">>,
                      <<"r", "e", "s", "t", "i", "c">>,
                      <<"t", "d", "a", "r", "r">>,
                      <<"n", "a", "s">>,
                      <<"s", "a", "m", "b", "a">>>>],
      [topic |-> "Performance Optimization",
       keywords |-> <<<<"p", "e", "r", "f", "o", "r", "m", "a", "n", "c", "e">>,
                      <<"o", "p", "t", "i", "m", "i", "z", "a", "t", "i", "o", "n">>,
                      <<"c", "a", "c", "h", "e">>,
                      <<"l", "a", "t", "e", "n", "c", "y">>,
                      <<"p", "r", "o", "f", "i", "l", "i", "n", "g">>>>],
      [topic |-> "API Design",
       keywords |-> <<<<"a", "p", "i">>,
                      <<"e", "n", "d", "p", "o", "i", "n", "t">>,
                      <<"o", "p", "e", "n", "a", "p", "i">>,
                      <<"f", "a", "s", "t", "a", "p", "i">>,
                      <<"r", "e", "s", "t">>>>],
      [topic |-> "Security",
       keywords |-> <<<<"a", "u", "t", "h", "e", "n", "t", "i", "c", "a", "t", "i", "o", "n">>,
                      <<"a", "u", "t", "h", "o", "r", "i", "z", "a", "t", "i", "o", "n">>,
                      <<"j", "w", "t">>,
                      <<"e", "n", "c", "r", "y", "p", "t", "i", "o", "n">>,
                      <<"s", "e", "c", "r", "e", "t">>>>]>>

\* _normalise_text: text.lower() if text else ""
normalise_text(text) == [i \in 1..Len(text) |-> LowerChar(text[i])]

\* keyword in text_lc
Contains(text_lc, keyword) ==
    \E i \in 1..(Len(text_lc) - Len(keyword) + 1) :
        \A k \in 1..Len(keyword) : text_lc[i + k - 1] = keyword[k]

\* sum(1 for keyword in keywords if keyword in text_lc)
Matches(keywords, text_lc) ==
    Cardinality({i \in 1..Len(keywords) : Contains(text_lc, keywords[i])})

\* a topic detected on a single keyword
DetectedOnOne(matches) == matches >= 1

\* if matches >= 2
Detected(matches) == matches >= 2

\* the for loop over TOPIC_KEYWORDS.items(): detected topics in table order
DetectedEntries(text_lc) ==
    SelectSeq(TOPIC_KEYWORDS, LAMBDA entry : Detected(Matches(entry.keywords, text_lc)))

TopicsOf(entries) == [i \in 1..Len(entries) |-> entries[i].topic]

\* [topic for topic in existing if topic]
Filtered(existing) == SelectSeq(existing, LAMBDA topic : topic # "")

\* infer_topics(text, existing); existing is [none, val]
infer_topics(text, existing) ==
    IF ~existing.none /\ existing.val # <<>> /\ Filtered(existing.val) # <<>>
    THEN Filtered(existing.val)
    ELSE IF DetectedEntries(normalise_text(text)) = <<>>
         THEN <<"General">>
         ELSE TopicsOf(DetectedEntries(normalise_text(text)))

PROJECT_KEYWORDS ==
    <<[project |-> <<"m", "i", "n", "d", "b", "a", "s", "e">>,
       keywords |-> <<<<"m", "i", "n", "d", "b", "a", "s", "e">>,
                      <<"v", "e", "c", "t", "o", "r", " ", "m", "e", "m", "o", "r", "y">>,
                      <<"c", "o", "n", "v", "e", "r", "s", "a", "t", "i", "o", "n", " ", "a", "r", "c", "h", "i", "v", "e">>>>],
      [project |-> <<"s", "u", "p", "e", "r", "c", "l", "a", "u", "d", "e">>,
       keywords |-> <<<<"s", "u", "p", "e", "r", "c", "l", "a", "u", "d", "e">>,
                      <<"p", "m", " ", "a", "g", "e", "n", "t">>,
                      <<"a", "u", "t", "o", "n", "o", "m", "o", "u", "s", " ", "a", "g", "e", "n", "t">>>>],
      [project |-> <<"a", "i", "r", "i", "s", "-", "g", "a", "t", "e", "w", "a", "y">>,
       keywords |-> <<<<"a", "i", "r", "i", "s">>,
                      <<"m", "c", "p", " ", "g", "a", "t", "e", "w", "a", "y">>,
                      <<"m", "i", "n", "d", "b", "a", "s", "e", " ", "m", "c", "p">>>>]>>

PROJECT_HINT_KEYS == <<"project", "workspace", "project_path", "repo", "repository", "slug">>

\* Optional[str]: None, or a string
NoneStr == [none |-> TRUE, val |-> <<>>]
Str(str) == [none |-> FALSE, val |-> str]

\* a dict value: a string, or a value of another type (val is then unused)
StrValue(str) == [type |-> "str", val |-> str]
OtherValue(type) == [type |-> type, val |-> <<>>]

\* source_dict.get(key)
Get(items, key) == IF key \in DOMAIN items THEN items[key] ELSE OtherValue("NoneType")

\* the hint returned as found, without str.strip()
HintUnstripped(value) == value.val

\* return value.strip()
Hint(value) == Strip(value.val)

\* isinstance(value, str) and value.strip()
IsHint(value) == value.type = "str" /\ Strip(value.val) # <<>>

\* the positions in PROJECT_HINT_KEYS whose value in the dict is a hint
HintPositions(items) ==
    {i \in 1..Len(PROJECT_HINT_KEYS) : IsHint(Get(items, PROJECT_HINT_KEYS[i]))}

FirstOf(positions) == CHOOSE i \in positions : \A j \in positions : i <= j

\* (metadata or {}), (content or {}): what the isinstance(source_dict, dict) test lets through
ItemsOf(source_dict) == IF source_dict.type = "dict" THEN source_dict.items ELSE <<>>

\* the for loop over PROJECT_HINT_KEYS in one dict
ScanHints(source_dict) ==
    IF HintPositions(ItemsOf(source_dict)) = {} THEN NoneStr
    ELSE Str(Hint(Get(ItemsOf(source_dict),
                      PROJECT_HINT_KEYS[FirstOf(HintPositions(ItemsOf(source_dict)))])))

\* any(keyword in text_lc for keyword in keywords)
AnyKeyword(keywords, text_lc) == \E i \in 1..Len(keywords) : Contains(text_lc, keywords[i])

\* the for loop over PROJECT_KEYWORDS.items()
KeywordProject(text_lc) ==
    IF \E n \in 1..Len(PROJECT_KEYWORDS) : AnyKeyword(PROJECT_KEYWORDS[n].keywords, text_lc)
    THEN Str(PROJECT_KEYWORDS[FirstOf({n \in 1..Len(PROJECT_KEYWORDS) :
                 AnyKeyword(PROJECT_KEYWORDS[n].keywords, text_lc)})].project)
    ELSE NoneStr

\* infer_project(metadata=, content=, text=, explicit=)
infer_project(metadata, content, text, explicit) ==
    IF ~explicit.none /\ explicit.val # <<>> THEN explicit
    ELSE IF ~ScanHints(metadata).none THEN ScanHints(metadata)
    ELSE IF ~ScanHints(content).none THEN ScanHints(content)
    ELSE KeywordProject(normalise_text(text))

\* ------------------------------------------------------------------------
\* Search ranking (apps/api/crud/conversation.py, search_conversations)
\* ------------------------------------------------------------------------
\* scores are fixed-point numbers in hundredths: 1.0
One == 10000

\* weights (:recency_weight, :semantic_weight) are counted in hundredths
WeightOne == 100

\* EXP is computed to eight decimal places
ExpOne == One * One

\* EXP(-1) to eight decimal places
InvE == 36787944

\* days from to_timestamp(0) to NOW()
EpochAge == 20000

\* a * b for two numbers of eight decimal places between 0 and 1
MulScaled(a, b) ==
    (a \div One) * (b \div One)
        + ((a \div One) * (b % One) + (a % One) * (b \div One)
               + ((a % One) * (b % One)) \div One) \div One

\* the first k decimal places of r / t, for 0 <= r < t
RECURSIVE Fraction(_, _, _, _)
Fraction(r, t, k, acc) ==
    IF k = 0 THEN acc
    ELSE Fraction((r * 10) % t, t, k - 1, acc * 10 + (r * 10) \div t)

\* EXP(-f) for 0 <= f < 1: the series 1 - f + f^2/2! - f^3/3! ..., term k onwards
RECURSIVE ExpSeries(_, _, _, _)
ExpSeries(f, term, k, acc) ==
    IF term = 0 THEN acc
    ELSE ExpSeries(f, MulScaled(term, f) \div k, k + 1,
                   IF k % 2 = 1 THEN acc - MulScaled(term, f) \div k
                   ELSE acc + MulScaled(term, f) \div k)

\* EXP(-n) for a natural number n
RECURSIVE ExpNegInt(_)
ExpNegInt(n) ==
    IF n = 0 THEN ExpOne
    ELSE IF n > 20 THEN 0
    ELSE MulScaled(InvE, ExpNegInt(n - 1))

\* EXP(-age / tau) to eight decimal places
ExpNeg(age, tau) ==
    MulScaled(ExpNegInt(age \div tau),
              ExpSeries(Fraction(age % tau, tau, 8, 0), ExpOne, 1, ExpOne))

\* EXP(-EXTRACT(EPOCH FROM (NOW() - COALESCE(created_at, to_timestamp(0)))) / :tau_seconds),
\* rounded to ten-thousandths; age is NOW() - created_at and tau is :tau_seconds, both
\* counted in days; a null created_at is the epoch
Decay(age, tau) ==
    (ExpNeg(IF age = NoTime THEN EpochAge ELSE age, tau) + One \div 2) \div One

\* the boost given to the candidates outside the recent window
InBoostWindowOld(age, boost_days) == age # NoTime /\ age >= boost_days

\* WHEN created_at >= NOW() - (:boost_days * INTERVAL '1 day')
InBoostWindow(age, boost_days) == age # NoTime /\ age <= boost_days

\* LEAST(1.0, EXP(...) + CASE ... END) AS recency_score
recency_score(row, p) ==
    Min(One, Decay(row.age, p.recency_tau)
             + (IF InBoostWindow(row.age, p.recency_boost_days)
                THEN p.recency_boost_value ELSE 0))

\* (1 - (embedding <=> query)) AS semantic_score
semantic_score(row) == row.semantic

\* semantic_score * :semantic_weight + recency_score * :recency_weight, in
\* millionths; semantic_weight = 1.0 - recency_weight
combined_score(row, p) ==
    semantic_score(row) * (WeightOne - p.recency_weight)
        + recency_score(row, p) * p.recency_weight

\* a WHERE clause on the combined score
PassesThresholdCombined(row, p) == combined_score(row, p) >= p.threshold * WeightOne

\* AND (1 - (embedding <=> query)) >= :threshold
PassesThreshold(row, p) == semantic_score(row) >= p.threshold

\* the WHERE clause: the ids of the rows selected (`if source:` and the like:
\* None and the empty string add no clause)
Selected(table, p) ==
    {i \in DOMAIN table :
        /\ table[i].embedding
        /\ PassesThreshold(table[i], p)
        /\ Truthy(p.source) => table[i].source = p.source
        /\ Truthy(p.project) => table[i].project = p.project
        /\ Truthy(p.topic) => p.topic \in table[i].topics
        /\ Truthy(p.workspace_path) => table[i].workspace_path = p.workspace_path}

\* the row as returned, with its score columns
Scored(table, i, p) ==
    [id |-> i, source |-> table[i].source, age |-> table[i].age,
     project |-> table[i].project, topics |-> table[i].topics,
     workspace_path |-> table[i].workspace_path,
     semantic_score |-> semantic_score(table[i]),
     recency_score |-> recency_score(table[i], p),
     combined_score |-> combined_score(table[i], p),
     similarity |-> semantic_score(table[i])]

\* ORDER BY combined_score DESC LIMIT :limit: every order of the selected rows
\* that is non-increasing in combined_score, cut at the limit
Orderings(table, p) ==
    {r \in [1..Min(p.limit, Cardinality(Selected(table, p))) -> Selected(table, p)] :
        /\ \A i, j \in DOMAIN r : i < j =>
              /\ r[i] # r[j]
              /\ combined_score(table[r[i]], p) >= combined_score(table[r[j]], p)
        /\ \A i \in DOMAIN r : \A k \in Selected(table, p) :
              (\A j \in DOMAIN r : r[j] # k) =>
                  combined_score(table[r[i]], p) >= combined_score(table[k], p)}

\* the API and the worker once started, before any request
WorkerStart ==
    /\ settings \in SettingsChoices
    /\ raw = <<>>
    /\ conv = <<>>
    /\ resp = <<>>
    /\ pc = "poll"
    /\ batch = <<>>
    /\ idx = 1
    /\ processed_any = FALSE
    /\ attempts = <<>>

Start == WorkerStart /\ NormIdle /\ NoCall

\* texts of the merge inputs
XY == <<"x", " ", "y">>
XYZ == <<"x", " ", "y", " ", "z">>
LongTail == <<"a", " ">> \o [i \in 1..(BoundaryLen - 1) |-> "b"]
LongHead == <<"A", " ">> \o [i \in 1..(BoundaryLen - 2) |-> "b"]

\* normalized conversations handed to merge_conversations
Mergeable ==
    { FullConversation("c1", "cursor", "t1", <<"t">>,
          <<Message("user", <<"q">>, 0), Message("assistant", XY, 5)>>, 0, 5, {"x"}),
      FullConversation("c2", "cursor", "NULL", <<>>,
          <<Message("user", XY, 10)>>, 10, 10, {"y"}),
      FullConversation("c3", "cursor", "t1", Chars("cursor conversation"),
          <<Message("user", <<"q">>, 36)>>, 36, 40, {}),
      FullConversation("c4", "cursor", "t1", <<"u">>,
          <<Message("assistant", XY, 5), Message("user", <<"q">>, 35)>>, 35, 35, {"x", "z"}),
      FullConversation("c5", "chatgpt", "t1", <<>>,
          <<Message("user", XY, 10)>>, 10, 10, {}),
      FullConversation("c6", "cursor", "NULL", <<>>,
          <<Message("assistant", LongTail, 0)>>, 0, 0, {}),
      FullConversation("c7", "cursor", "NULL", <<>>,
          <<Message("user", LongHead, 10)>>, 10, 10, {}),
      FullConversation("c8", "cursor", "t1", <<>>, <<>>, 12, 12, {}),
      FullConversation("c9", "cursor", "t2", <<>>,
          <<Message("user", XYZ, 3)>>, 3, 50, {}),
      FullConversation("c10", "cursor", "t2", <<>>,
          <<Message("user", <<"q">>, 81)>>, 81, 81, {}),
      FullConversation("c11", "cursor", "t2", <<>>,
          <<Message("user", <<"q">>, 20)>>, 20, 20, {}),
      FullConversation("c12", "cursor", "", <<>>,
          <<Message("user", <<"m">>, 0)>>, 0, 0, {}),
      FullConversation("c13", "cursor", "", <<>>,
          <<Message("user", <<"n">>, 1)>>, 1, 1, {}) }

MergeInputs == UNION {[1..k -> Mergeable] : k \in 0..MaxConvs}

\* the pipeline and the normalizer stand still while a function is called
Quiet ==
    /\ WorkerStart
    /\ ~settings.DERIVE_ON_STORE
    /\ settings.DERIVER_BATCH_SIZE = 0
    /\ NormIdle
    /\ collector = NewCollector

\* normalizer.merge_conversations(args): sorts the list in place, returns the merged list
MergeConversations ==
    /\ ~returned
    /\ args' = SortByCreatedAt(args)
    /\ ret' = merge_conversations(SortByCreatedAt(args))
    /\ returned' = TRUE
    /\ UNCHANGED <<collector, wvars, nvars>>

MergeInit ==
    /\ Quiet
    /\ args \in MergeInputs
    /\ ret = <<>>
    /\ returned = FALSE

MergeNext == MergeConversations

MergeSpec == MergeInit /\ [][MergeNext]_vars

\* a collector's batch before deduplication: ids and contents repeat
Turn(text) == <<Message("user", <<text>>, 0)>>

Batchable ==
    { FullConversation(id, "cursor", "NULL", <<>>, Turn(text), 0, 0, {}) :
          id \in {"i1", "i2"}, text \in {"a", "b"} }
    \cup { FullConversation("i3", "cursor", "NULL", <<"t">>, Turn("a"), 5, 5, {}),
           FullConversation("i4", "cursor", "NULL", <<>>,
               <<Message("user", Chars("a:user:b"), 0)>>, 0, 0, {}),
           FullConversation("i5", "cursor", "NULL", <<>>,
               <<Message("user", <<"a">>, 0), Message("user", <<"b">>, 1)>>, 0, 0, {}) }

DedupInputs == UNION {[1..k -> Batchable] : k \in 0..MaxBatch}

\* collector.deduplicate_conversations(args)
Deduplicate ==
    /\ ~returned
    /\ ret' = deduplicate_conversations(args)
    /\ returned' = TRUE
    /\ UNCHANGED <<args, collector, wvars, nvars>>

DedupInit ==
    /\ Quiet
    /\ args \in DedupInputs
    /\ ret = <<>>
    /\ returned = FALSE

DedupNext == Deduplicate

DedupSpec == DedupInit /\ [][DedupNext]_vars

\* what the adapters find on disk
StoredItems ==
    { <<>>,
      <<[parses |-> TRUE,
         conv |-> FullConversation("k1", "cursor", "NULL", <<>>, Turn("a"), 0, 0, {})]>>,
      <<[parses |-> FALSE, conv |-> <<>>]>>,
      <<[parses |-> FALSE, conv |-> <<>>],
        [parses |-> TRUE,
         conv |-> FullConversation("k2", "cursor", "NULL", <<>>, Turn("b"), 5, 5, {})]>> }

StoredFiles == [readable : BOOLEAN, items : StoredItems]

\* a path that is no directory holds no files
DataPaths ==
    [in_workspace_storage : BOOLEAN, is_dir : {TRUE},
     files : {<<>>} \cup {<<f>> : f \in StoredFiles}]
    \cup [in_workspace_storage : BOOLEAN, is_dir : {FALSE}, files : {<<>>}]

\* what ~/.cursor/logs holds
LogFiles ==
    { <<>>,
      <<[readable |-> TRUE,
         items |-> <<[parses |-> TRUE,
                      conv |-> FullConversation("k3", "cursor", "NULL", <<>>,
                                                Turn("a"), 4, 4, {})]>>]>>,
      <<[readable |-> FALSE, items |-> <<>>]>> }

CollectInputs ==
    [adapter : {"cursor", "windsurf"},
     paths : UNION {[1..k -> DataPaths] : k \in 0..MaxPaths},
     logs : LogFiles,
     since_date : {NoTime, 3}]

\* collector.collect(since_date) over the data paths found
RunCollect ==
    /\ ~returned
    /\ ret' = collect(args.adapter, args.paths, args.logs, args.since_date)
    /\ collector' = AfterCollect(collector, ret')
    /\ returned' = TRUE
    /\ UNCHANGED <<args, wvars, nvars>>

CollectInit ==
    /\ Quiet
    /\ args \in CollectInputs
    /\ ret = <<>>
    /\ returned = FALSE

CollectNext == RunCollect

CollectSpec == CollectInit /\ [][CollectNext]_vars

\* message data found in the adapters' storage
Adapters == {"cursor", "windsurf", "claude-desktop"}

StoredRoles ==
    {"NULL", "", "user", "USER", "Human", "me", "prompt", "assistant", "AI", "bot", "claude",
     "Cascade", "completion", "System", "tool"}

MessageData ==
    [kind : {"str"}, role : {"NULL"}, type : {"NULL"}, content : {<<>>, <<"x">>},
     timestamp : {NoTime}]
    \cup [kind : {"dict"}, role : StoredRoles, type : {"NULL", "human"},
          content : {<<>>, <<"x">>}, timestamp : {NoTime, 4}]

\* adapter._parse_message(msg_data)
ParseMessage ==
    /\ ~returned
    /\ ret' = parse_message(args.adapter, args.msg_data)
    /\ returned' = TRUE
    /\ UNCHANGED <<args, collector, wvars, nvars>>

ParseInit ==
    /\ Quiet
    /\ args \in [adapter : Adapters, msg_data : MessageData]
    /\ ret = <<>>
    /\ returned = FALSE

ParseNext == ParseMessage

ParseSpec == ParseInit /\ [][ParseNext]_vars

\* the Message(...) and Conversation(...) constructor calls of the adapters
MessageArgs ==
    [role : {"user", "assistant"}, content : {<<>>, <<"x">>}, timestamp : {0, 5},
     message_id : {"NULL", "", "m1"}, metadata : {{}, {"model"}}]

ConversationArgs ==
    [id : {"NULL", "", "c1"}, source : {"cursor", "chatgpt"}, thread_id : {"NULL", "None", "t1"},
     title : {<<>>, <<"t">>}, messages : {<<>>}, created_at : {1, 2}, updated_at : {2, 7}]

\* Message(**a), Message(**b)
NewMessages ==
    /\ ~returned
    /\ args.kind = "Message"
    /\ ret' = <<Message_post_init(args.a), Message_post_init(args.b)>>
    /\ returned' = TRUE
    /\ UNCHANGED <<args, collector, wvars, nvars>>

\* Conversation(**a), Conversation(**b)
NewConversations ==
    /\ ~returned
    /\ args.kind = "Conversation"
    /\ ret' = <<Conversation_post_init(args.a), Conversation_post_init(args.b)>>
    /\ returned' = TRUE
    /\ UNCHANGED <<args, collector, wvars, nvars>>

IdInit ==
    /\ Quiet
    /\ args \in [kind : {"Message"}, a : MessageArgs, b : MessageArgs]
                \cup [kind : {"Conversation"}, a : ConversationArgs, b : ConversationArgs]
    /\ ret = <<>>
    /\ returned = FALSE

IdNext == NewMessages \/ NewConversations

IdSpec == IdInit /\ [][IdNext]_vars

\* texts handed to the classifier: up to MaxPhrases phrases joined by spaces
MaxPhrases == 3

Phrases ==
    {<<"D", "o", "c", "k", "e", "r">>,
     <<"d", "o", "c", "k", "e", "r", "-", "c", "o", "m", "p", "o", "s", "e">>,
     <<"c", "o", "n", "t", "a", "i", "n", "e", "r">>,
     <<"w", "o", "r", "k", "s", "p", "a", "c", "e">>,
     <<"p", "n", "p", "m">>,
     <<"F", "a", "s", "t", "A", "P", "I">>,
     <<"J", "W", "T", " ", "s", "e", "c", "r", "e", "t">>}

RECURSIVE JoinPhrases(_)
JoinPhrases(phrases) ==
    IF phrases = <<>> THEN <<>>
    ELSE IF Len(phrases) = 1 THEN Head(phrases)
    ELSE Head(phrases) \o <<" ">> \o JoinPhrases(Tail(phrases))

Texts == {JoinPhrases(p) : p \in UNION {[1..n -> Phrases] : n \in 0..MaxPhrases}}

\* the topics argument of a store request
ExistingTopics ==
    {[none |-> TRUE, val |-> <<>>], [none |-> FALSE, val |-> <<>>],
     [none |-> FALSE, val |-> <<"">>], [none |-> FALSE, val |-> <<"", "Custom">>]}

\* infer_topics(args.text, args.existing)
InferTopics ==
    /\ ~returned
    /\ ret' = infer_topics(args.text, args.existing)
    /\ returned' = TRUE
    /\ UNCHANGED <<args, collector, wvars, nvars>>

TopicInit ==
    /\ Quiet
    /\ args \in [text : Texts, existing : ExistingTopics]
    /\ ret = <<>>
    /\ returned = FALSE

TopicNext == InferTopics

TopicSpec == TopicInit /\ [][TopicNext]_vars

\* payloads handed to infer_project: at most MaxHints keys in metadata and
\* content together
MaxHints == 2

HintValues ==
    {StrValue(<<>>), StrValue(<<" ">>), StrValue(<<" ", "w", "s", " ">>),
     StrValue(<<"r", "e", "p", "o">>), OtherValue("int")}

HintKeySet == {PROJECT_HINT_KEYS[i] : i \in 1..Len(PROJECT_HINT_KEYS)}

Dicts(n) ==
    UNION {[keys -> HintValues] : keys \in {k \in SUBSET HintKeySet : Cardinality(k) <= n}}

Payloads(n) ==
    {[type |-> "dict", items |-> items] : items \in Dicts(n)}
    \cup (IF n = 0 THEN {[type |-> "NoneType", items |-> <<>>], [type |-> "list", items |-> <<>>]}
          ELSE {})

ProjectTexts ==
    {<<>>,
     <<"S", "u", "p", "e", "r", "C", "l", "a", "u", "d", "e", " ", "P", "M", " ", "a", "g", "e", "n", "t", " ", "n", "o", "t", "e", "s">>,
     <<"a", "i", "r", "i", "s", " ", "u", "s", "e", "s", " ", "t", "h", "e", " ", "M", "i", "n", "d", "B", "a", "s", "e", " ", "M", "C", "P">>}

Explicits == {NoneStr, Str(<<>>), Str(<<"x">>)}

ProjectInputs ==
    UNION {[metadata : Payloads(m), content : Payloads(MaxHints - m),
            text : ProjectTexts, explicit : Explicits] : m \in 0..MaxHints}

\* infer_project(**args)
InferProject ==
    /\ ~returned
    /\ ret' = infer_project(args.metadata, args.content, args.text, args.explicit)
    /\ returned' = TRUE
    /\ UNCHANGED <<args, collector, wvars, nvars>>

ProjectInit ==
    /\ Quiet
    /\ args \in ProjectInputs
    /\ ret = <<>>
    /\ returned = FALSE

ProjectNext == InferProject

ProjectSpec == ProjectInit /\ [][ProjectNext]_vars

\* the conversations table and the parameters of a search
MaxRows == 2

\* a row of conversations: semantic is its similarity to the query in
\* ten-thousandths, age is NOW() - created_at in days, topics is the set of
\* its topics (empty for a null column as well)
SearchRow(semantic, age, source, embedding) ==
    [semantic |-> semantic, age |-> age, source |-> source, embedding |-> embedding,
     project |-> "NULL", topics |-> {}, workspace_path |-> "NULL"]

SearchRows ==
    {SearchRow(9000, 4, "cursor", TRUE), SearchRow(9000, 1, "cursor", TRUE),
     SearchRow(8000, 0, "cursor", TRUE), SearchRow(8000, 2, "chatgpt", TRUE),
     SearchRow(7000, 0, "cursor", TRUE), SearchRow(8500, NoTime, "cursor", TRUE),
     SearchRow(8900, 0, "cursor", TRUE), SearchRow(0, 0, "cursor", FALSE),
     [SearchRow(9000, 3, "cursor", TRUE) EXCEPT
         !.project = "platform", !.topics = {"Security"}, !.workspace_path = "/w"]}

\* the optional filters of a search
SearchFilters ==
    {[source |-> "NULL", project |-> "NULL", topic |-> "NULL", workspace_path |-> "NULL"],
     [source |-> "cursor", project |-> "NULL", topic |-> "NULL", workspace_path |-> "NULL"],
     [source |-> "", project |-> "", topic |-> "", workspace_path |-> ""],
     [source |-> "NULL", project |-> "platform", topic |-> "NULL", workspace_path |-> "NULL"],
     [source |-> "NULL", project |-> "NULL", topic |-> "Security", workspace_path |-> "NULL"],
     [source |-> "NULL", project |-> "NULL", topic |-> "NULL", workspace_path |-> "/w"]}

\* thresholds and the boost value in ten-thousandths, the weight in hundredths,
\* tau and the boost window in days
SearchParams ==
    {[threshold |-> t, limit |-> l, source |-> f.source, project |-> f.project,
      topic |-> f.topic, workspace_path |-> f.workspace_path,
      recency_weight |-> w, recency_tau |-> 14, recency_boost_days |-> 3,
      recency_boost_value |-> b] :
        t \in {5000, 8000}, l \in {1, 2}, f \in SearchFilters, w \in {0, 15, 100},
        b \in {0, 500, 5000}}
    \cup {[threshold |-> 8000, limit |-> 2, source |-> "NULL", project |-> "NULL",
           topic |-> "NULL", workspace_path |-> "NULL",
           recency_weight |-> w, recency_tau |-> tau, recency_boost_days |-> 1,
           recency_boost_value |-> 5000] : w \in {15, 100}, tau \in {1, 3}}

\* search_conversations(db, query_embedding, **params)
Search ==
    /\ ~returned
    /\ \E r \in Orderings(args.table, args.params) :
          ret' = [i \in DOMAIN r |-> Scored(args.table, r[i], args.params)]
    /\ returned' = TRUE
    /\ UNCHANGED <<args, collector, wvars, nvars>>

SearchInit ==
    /\ Quiet
    /\ args \in [table : UNION {[1..n -> SearchRows] : n \in 0..MaxRows},
                 params : SearchParams]
    /\ ret = <<>>
    /\ returned = FALSE

SearchNext == Search

SearchSpec == SearchInit /\ [][SearchNext]_vars

\* queued mode (DERIVE_ON_STORE off): the gateway stores, the worker derives
Init == Start /\ ~settings.DERIVE_ON_STORE

Next ==
    \/ StoreRaw
    \/ Poll
    \/ DeriveOk
    \/ DeriveFail
    \/ DeriveCrash
    \/ Wake

Spec == Init /\ [][Next]_vars

\* the store route beside the pipeline, in either mode: the route reads no
\* setting and writes no table, derive_loop reads no mode either and processes
\* whatever rows raw_conversations holds
ServiceInit == Start

ServiceNext ==
    \/ store_conversation
    \/ StoreRaw
    \/ Poll
    \/ DeriveOk
    \/ DeriveFail
    \/ DeriveCrash
    \/ Wake

ServiceSpec == ServiceInit /\ [][ServiceNext]_vars

\* derive_loop is one long-lived coroutine that asyncio keeps scheduling: while it
\* has a step to take it eventually takes it (which outcome a derivation has is
\* not constrained)
WorkerStep == Poll \/ DeriveOk \/ DeriveFail \/ DeriveCrash \/ Wake

FairSpec == Spec /\ WF_vars(WorkerStep)

\* the earlier service on its own: it shares the conversations table's name
\* with the pipeline but is a separate application with no raw table
LegacyInit == Start

LegacyNext == app_store_conversation \/ app_store_conversation_respond

LegacySpec == LegacyInit /\ [][LegacyNext]_vars

\* a collection run: the adapters' conversations go through one DataNormalizer,
\* whose caller may normalize again and may reset it; the API is not involved
NormInit ==
    /\ WorkerStart
    /\ ~settings.DERIVE_ON_STORE
    /\ settings.DERIVER_BATCH_SIZE = 0
    /\ convs \in PoolSeqs(MaxConvs)
    /\ normalizer = NewDataNormalizer
    /\ source_filter \in {"NULL", "", "cursor"}
    /\ calls = <<>>
    /\ NoCall

NormNext ==
    \/ NormalizeInput
    \/ NormalizeOutput
    \/ reset_stats

NormSpec == NormInit /\ [][NormNext]_vars

\* ------------------------------------------------------------------------
\* Properties of the derivation state machine
\* ------------------------------------------------------------------------
Rows == 1..Len(raw)

Captured(r) ==
    r.processed_at = NULL /\ r.retry_count = 0 /\ r.processing_error = NULL

Retrying(r) ==
    /\ r.processed_at = NULL
    /\ 0 < r.retry_count /\ r.retry_count < max_retries
    /\ r.processing_error # NULL

Derived(r) ==
    r.processed_at # NULL /\ r.processing_error = NULL

FailedTerminal(r) ==
    /\ r.processed_at # NULL
    /\ r.processing_error # NULL
    /\ r.retry_count >= max_retries

StatesOf(r) ==
    {s \in {"captured", "retrying", "derived", "failed-terminal"} :
        \/ s = "captured" /\ Captured(r)
        \/ s = "retrying" /\ Retrying(r)
        \/ s = "derived" /\ Derived(r)
        \/ s = "failed-terminal" /\ FailedTerminal(r)}

\* C2: every raw row is in exactly one of the states captured, retrying, derived,
\* failed-terminal; no other combination of processed_at, retry_count and
\* processing_error is reachable.
C2_FourStates ==
    \A i \in Rows : Cardinality(StatesOf(raw[i])) = 1

\* a row derived after a retry, next to a retrying and a failed-terminal row
C2_Witness ==
    \E i, j, k \in Rows :
        /\ Derived(raw[i]) /\ raw[i].retry_count > 0
        /\ Retrying(raw[j])
        /\ FailedTerminal(raw[k])

DerivedOf(i) == {j \in 1..Len(conv) : conv[j].raw_id = i}

\* C3: at most one derived conversation row references any given raw row.
C3_DerivedOnce ==
    \A i \in Rows : Cardinality(DerivedOf(i)) <= 1

\* the worker derived a row and has since polled again and derived another one
C3_Witness ==
    \E i, j \in Rows :
        /\ i # j
        /\ attempts[i] # <<>> /\ attempts[i][Len(attempts[i])] = "ok"
        /\ attempts[j] # <<>> /\ attempts[j][Len(attempts[j])] = "ok"
        /\ settings.DERIVER_BATCH_SIZE = 1
        /\ pc = "poll"

\* the columns of a raw row that only the gateway writes
Inserted(r) ==
    <<r.id, r.source, r.source_conversation_id, r.workspace_path, r.payload,
      r.raw_metadata, r.captured_at, r.inserted_at>>

\* C7: no step removes a raw row or changes a column of it other than
\* processed_at, processing_error and retry_count.
C7_RawFrame ==
    [][/\ Len(raw') >= Len(raw)
       /\ \A i \in Rows : Inserted(raw'[i]) = Inserted(raw[i])]_vars

\* the worker has counted a failure on one row and derived another
C7_Witness ==
    \E i, j \in Rows :
        /\ raw[i].retry_count > 0 /\ raw[i].raw_metadata # NULL
        /\ attempts[j] # <<>> /\ Derived(raw[j])


Errors == {"ValidationError", "EmbeddingServiceError", "IntegrityError"}

AllFailed(i) == \A n \in 1..Len(attempts[i]) : attempts[i][n] \in Errors

\* the outcome the worker's attempts on row i ended with, if the claim is right
ExhaustedAt3(i) ==
    /\ raw[i].processed_at # NULL
    /\ raw[i].processing_error # NULL
    /\ raw[i].retry_count = 3
    /\ Len(attempts[i]) = 3

\* the ceiling is 3 and the worker has attempted row i
Attempted3(i) ==
    IF i \in Rows THEN (max_retries = 3) /\ attempts[i] # <<>> ELSE FALSE

\* row i was derived, or all its attempts failed and it is exhausted as claimed
Settled3(i) ==
    IF i \in Rows
    THEN Derived(raw[i]) \/ (AllFailed(i) /\ ExhaustedAt3(i))
    ELSE FALSE

\* C1: with a ceiling of 3, a raw row either has an attempt that succeeds or is
\* attempted exactly 3 times and then has processed_at set, processing_error
\* non-null and retry_count = 3; once it is in that state the worker never
\* attempts it again.
C1_ThreeStrikes ==
    /\ \A i \in 1..MaxRaw : [](Attempted3(i) => <>Settled3(i))
    /\ [][\A i \in Rows :
            ((max_retries = 3) /\ ExhaustedAt3(i)) => attempts'[i] = attempts[i]]_vars

Processed(i) ==
    IF i \in Rows THEN raw[i].processed_at # NULL ELSE FALSE

\* C4: under a fairly scheduled worker every raw row with processed_at null
\* eventually has processed_at set, whatever the attempts' outcomes and however
\* many unprocessed rows are queued ahead of it.
C4_EventuallyProcessed ==
    \A i \in 1..MaxRaw :
        [](i \in Rows => <>Processed(i))

\* a step in which the worker's process_raw_conversation call raised
FailedPass ==
    /\ pc = "batch"
    /\ Len(attempts'[batch[idx]]) = Len(attempts[batch[idx]]) + 1
    /\ attempts'[batch[idx]][Len(attempts'[batch[idx]])] \in Errors

\* C5: a failed derivation of one row of a batch never ends the loop: the worker
\* goes on with the next row of the same batch (or, after the last row, with the
\* sleep before the next poll).
C5_FailureIsolated ==
    [][FailedPass
        => /\ pc' \in {"batch", "sleep", "yield"}
           /\ batch' = batch
           /\ idx < Len(batch) => (pc' = "batch" /\ idx' = idx + 1)]_vars

\* the worker's attempt on row i met the uniqueness violation
HitUnique(att, i) == \E n \in 1..Len(att[i]) : att[i][n] = "IntegrityError"

\* C8: a write that violates the uniqueness of (source, source_conversation_id)
\* is answered to the ingestion caller as an error, and the worker never attempts
\* again a row whose derivation met that violation.
C8_UniqueSurfaced ==
    [][\A i \in 1..Len(raw') :
          /\ HitUnique(attempts', i) => resp'[i] = "IntegrityError"
          /\ (i \in Rows /\ HitUnique(attempts, i)) => attempts'[i] = attempts[i]]_vars

\* the store requests that passed validation: storeRaw accepts each of them
Accepted == {i \in 1..Len(resp) : resp[i] # "HTTP 422"}

\* C6: every conversation the gateway accepted in synchronous mode has its raw
\* row persisted, whether the inline derivation succeeded or failed, and the row
\* is never removed afterwards.
C6_RawDurable ==
    settings.DERIVE_ON_STORE =>
        /\ Cardinality(Accepted) <= Len(raw)
        /\ \A i \in 1..Len(raw) : raw[i].id = i

\* the (role, content) pairs of a conversation's messages, in order
Pairs(c) == [k \in 1..Len(c.messages) |-> <<c.messages[k].role, c.messages[k].content>>]

\* every message of the conversation has content left after cleaning
AllValid(c) ==
    /\ c.messages # <<>>
    /\ \A k \in 1..Len(c.messages) : Strip(clean_content(c.messages[k].content)) # <<>>

\* the source filter of the run lets the conversation through
PassesFilter(c) == ~Truthy(source_filter) \/ c.source = source_filter

\* positions i < j of a call's input list hold two copies of one conversation:
\* same source, same (role, content) sequence, same calendar creation date
SameConversation(call, i, j) ==
    /\ i < j
    /\ PassesFilter(call.before[i]) /\ PassesFilter(call.before[j])
    /\ AllValid(call.before[i]) /\ AllValid(call.before[j])
    /\ call.before[i].source = call.before[j].source
    /\ Pairs(call.before[i]) = Pairs(call.before[j])
    /\ call.before[i].created_at # NoTime /\ call.before[j].created_at # NoTime
    /\ DateOf(call.before[i].created_at) = DateOf(call.before[j].created_at)

InOutput(call, i) == \E k \in 1..Len(call.out) : call.out[k] = call.arg[i]

\* C9: within one normalize call (on a normalizer that has seen nothing yet), of
\* two input conversations with the same source, the same sequence of
\* (role, content) pairs and the same calendar creation date, exactly one is
\* present in the output
C9_DedupKeepsOne ==
    \A c \in 1..Len(calls) : \A i, j \in 1..Len(calls[c].arg) :
        (calls[c].fresh /\ SameConversation(calls[c], i, j))
            => (InOutput(calls[c], i) # InOutput(calls[c], j))

\* what idempotence compares: everything but the normalization marker metadata
Core(c) == [source |-> c.source, title |-> c.title, messages |-> c.messages,
            created_at |-> c.created_at, updated_at |-> c.updated_at]

CoreOf(list) == [k \in 1..Len(list) |-> Core(list[k])]

\* call c normalizes the list call c - 1 returned, on a normalizer whose hash
\* sets are empty
SecondRun(c) ==
    /\ c > 1
    /\ calls[c].arg = calls[c - 1].out
    /\ calls[c].fresh

\* C10: normalization is idempotent: normalizing the output of a run a second
\* time returns the same list, the same conversations in the same order with the
\* same messages, roles, contents, timestamps and titles, differing at most in
\* the normalization marker metadata
C10_Idempotent ==
    \A c \in 1..Len(calls) :
        (IF c > 1 THEN SecondRun(c) ELSE FALSE)
            => /\ calls[c].out = calls[c - 1].out
               /\ CoreOf(calls[c].after) = CoreOf(calls[c - 1].after)

\* what the dedup keys are computed from
Keyed(c) == [source |-> c.source, messages |-> c.messages, created_at |-> c.created_at]

\* calls c - 1 and c are made with the same list, whose conversations carry the
\* same sources, messages and creation times both times
SameInput(c) ==
    /\ calls[c].arg = calls[c - 1].arg
    /\ [k \in 1..Len(calls[c].before) |-> Keyed(calls[c].before[k])]
         = [k \in 1..Len(calls[c - 1].before) |-> Keyed(calls[c - 1].before[k])]

\* C11: dedup keys are scoped to one normalization run: hashes recorded during
\* one normalize call never cause a drop in a later call, so two successive
\* calls with the same input return the same output
C11_RunScoped ==
    \A c \in 1..Len(calls) :
        (IF c > 1 THEN SameInput(c) ELSE FALSE) => calls[c].out = calls[c - 1].out

\* the last n characters of a text
LastChars(str, n) == SubSeq(str, Len(str) - Min(n, Len(str)) + 1, Len(str))

\* both conversations name the same thread
ThreadsMatch(c1, c2) == c1.thread_id \notin {"NULL", ""} /\ c1.thread_id = c2.thread_id

\* Jaccard word overlap of two boundary texts exceeds 0.7
Similar(text1, text2) ==
    LET w1 == Words(LowerText(text1))
        w2 == Words(LowerText(text2))
    IN w1 # {} /\ w2 # {}
       /\ SimilarityDen * Cardinality(w1 \cap w2) > SimilarityNum * Cardinality(w1 \cup w2)

\* same source and at most 30 minutes from the earlier one's updated_at to the
\* later one's created_at
CloseInTime(c1, c2) ==
    c1.source = c2.source /\ c2.created_at - c1.updated_at <= MergeWindow

\* the boundary texts as the merge policy words them: the earlier one's last
\* 100 characters and the later one's first 100 characters
PolicyBoundary(c1, c2) ==
    /\ c1.messages # <<>> /\ c2.messages # <<>>
    /\ Similar(LastChars(c1.messages[Len(c1.messages)].content, BoundaryLen),
               Slice(c2.messages[1].content, BoundaryLen))

\* the boundary texts as compared: the first 100 characters of the earlier one's
\* last message and of the later one's first message
MessageBoundary(c1, c2) ==
    /\ c1.messages # <<>> /\ c2.messages # <<>>
    /\ Similar(Slice(c1.messages[Len(c1.messages)].content, BoundaryLen),
               Slice(c2.messages[1].content, BoundaryLen))

IsMerged(c) == "merged" \in DOMAIN c.metadata

\* C12: for an input of two conversations, merge_conversations returns a single
\* merged conversation if and only if they have the same source, the gap from
\* the earlier one's updated_at to the later one's created_at is at most 30
\* minutes, and either their thread_ids match or the Jaccard similarity of the
\* earlier one's last 100 characters and the later one's first 100 characters
\* exceeds 0.7; otherwise both are returned unmerged
C12_MergeIff ==
    (returned /\ Len(args) = 2) =>
        IF CloseInTime(args[1], args[2])
           /\ (ThreadsMatch(args[1], args[2]) \/ PolicyBoundary(args[1], args[2]))
        THEN Len(ret) = 1 /\ IsMerged(ret[1])
        ELSE ret = args

\* C12 (amended): the same with the boundary texts being the first 100
\* characters of the earlier conversation's last message and the first 100
\* characters of the later conversation's first message
C12_MergeIffMessageBoundary ==
    (returned /\ Len(args) = 2) =>
        IF CloseInTime(args[1], args[2])
           /\ (ThreadsMatch(args[1], args[2]) \/ MessageBoundary(args[1], args[2]))
        THEN Len(ret) = 1 /\ IsMerged(ret[1])
        ELSE ret = args

\* two conversations merged on the similarity of a last message longer than 100
\* characters
C12_Witness ==
    /\ returned /\ Len(args) = 2 /\ Len(ret) = 1 /\ IsMerged(ret[1])
    /\ ~ThreadsMatch(args[1], args[2])
    /\ Len(args[1].messages[Len(args[1].messages)].content) > BoundaryLen

StandardRoles == {"user", "assistant", "system"}

\* C13: every message of every conversation returned by normalize has a role
\* that is exactly one of user, assistant, system, whatever the spelling or
\* letter case of the input role
C13_StandardRoles ==
    \A c \in 1..Len(calls) : \A k \in 1..Len(calls[c].after) :
        \A m \in 1..Len(calls[c].after[k].messages) :
            calls[c].after[k].messages[m].role \in StandardRoles

\* the timestamps of a conversation's messages
Timestamps(c) == {c.messages[m].timestamp : m \in 1..Len(c.messages)}

MinOf(S) == CHOOSE x \in S : \A y \in S : x <= y
MaxOf(S) == CHOOSE x \in S : \A y \in S : y <= x

\* the conversation returned at position k of a call's output, as it came in
BeforeOf(call, k) ==
    call.before[CHOOSE p \in 1..Len(call.arg) : call.arg[p] = call.out[k]]

\* C14: for any conversation entering normalize without created_at or without
\* updated_at, the returned conversation has created_at equal to the minimum
\* and updated_at equal to the maximum timestamp of its retained messages
C14_BothFromMessages ==
    \A c \in 1..Len(calls) : \A k \in 1..Len(calls[c].out) :
        (BeforeOf(calls[c], k).created_at = NoTime
         \/ BeforeOf(calls[c], k).updated_at = NoTime)
            => /\ calls[c].after[k].created_at = MinOf(Timestamps(calls[c].after[k]))
               /\ calls[c].after[k].updated_at = MaxOf(Timestamps(calls[c].after[k]))

\* C14 (amended): a returned conversation that came in without created_at has
\* created_at equal to the minimum timestamp of its retained messages, one that
\* came in without updated_at has updated_at equal to the maximum; a created_at
\* or updated_at that came in is kept
C14_MissingFromMessages ==
    \A c \in 1..Len(calls) : \A k \in 1..Len(calls[c].out) :
        /\ calls[c].after[k].created_at =
              IF BeforeOf(calls[c], k).created_at = NoTime
              THEN MinOf(Timestamps(calls[c].after[k]))
              ELSE BeforeOf(calls[c], k).created_at
        /\ calls[c].after[k].updated_at =
              IF BeforeOf(calls[c], k).updated_at = NoTime
              THEN MaxOf(Timestamps(calls[c].after[k]))
              ELSE BeforeOf(calls[c], k).updated_at

\* a conversation came in with created_at but without updated_at, and its
\* created_at is not the time of its first retained message
C14_Witness ==
    \E c \in 1..Len(calls) : \E k \in 1..Len(calls[c].out) :
        /\ BeforeOf(calls[c], k).created_at # NoTime
        /\ BeforeOf(calls[c], k).updated_at = NoTime
        /\ calls[c].after[k].created_at # MinOf(Timestamps(calls[c].after[k]))
        /\ calls[c].after[k].updated_at = MaxOf(Timestamps(calls[c].after[k]))

\* the positions of the input whose conversations make up the output, in order
IsSubListAt(out, in, pos) ==
    /\ Len(pos) = Len(out)
    /\ \A k \in 1..Len(pos) : pos[k] \in 1..Len(in) /\ in[pos[k]] = out[k]
    /\ \A k \in 1..(Len(pos) - 1) : pos[k] < pos[k + 1]

\* the input positions deduplicate_conversations keeps: those whose id and whose
\* content hash occur at no earlier kept position
RECURSIVE KeptPositions(_, _)
KeptPositions(in, n) ==
    IF n = 0 THEN {}
    ELSE LET before == KeptPositions(in, n - 1)
         IN IF \E q \in before :
                   \/ in[q].id = in[n].id
                   \/ BaseCollector_get_conversation_hash(in[q])
                        = BaseCollector_get_conversation_hash(in[n])
            THEN before
            ELSE before \cup {n}

SeqOfSet(S) == CHOOSE f \in [1..Cardinality(S) -> S] : \A i, j \in 1..Cardinality(S) : i < j => f[i] < f[j]

NoSharedIdOrHash(list) ==
    \A i, j \in 1..Len(list) :
        i # j => /\ list[i].id # list[j].id
                 /\ BaseCollector_get_conversation_hash(list[i])
                      # BaseCollector_get_conversation_hash(list[j])

\* C16: the list returned by deduplicate_conversations is an order-preserving
\* sub-list of its input in which no two conversations share an id and no two
\* share a content hash; of the input conversations with one id, and of those
\* with one content hash, the first occurrence is the one kept; and applying it
\* to its own output changes nothing
C16_FirstOccurrenceKept ==
    returned =>
        /\ \E pos \in [1..Len(ret) -> 1..Len(args)] :
              /\ IsSubListAt(ret, args, pos)
              /\ \A k \in 1..Len(pos) : \A q \in 1..(pos[k] - 1) :
                    /\ args[q].id # args[pos[k]].id
                    /\ BaseCollector_get_conversation_hash(args[q])
                         # BaseCollector_get_conversation_hash(args[pos[k]])
        /\ NoSharedIdOrHash(ret)
        /\ deduplicate_conversations(ret) = ret

\* C16 (amended): the list returned is the order-preserving sub-list of the
\* input made of the conversations that share neither id nor content hash with
\* an earlier kept conversation; no two of it share an id or a content hash,
\* and applying deduplicate_conversations to it changes nothing
C16_GreedySubList ==
    returned =>
        /\ IsSubListAt(ret, args, SeqOfSet(KeptPositions(args, Len(args))))
        /\ NoSharedIdOrHash(ret)
        /\ deduplicate_conversations(ret) = ret

\* a conversation is kept although an earlier one with its id was dropped for
\* its content
C16_Witness ==
    /\ returned
    /\ \E p, q \in 1..Len(args) :
          /\ q < p
          /\ args[q].id = args[p].id
          /\ q \notin KeptPositions(args, Len(args))
          /\ p \in KeptPositions(args, Len(args))
    /\ Len(ret) = 2

\* the conversations of every item that parses, in every readable file
RECURSIVE Obtainable(_)
Obtainable(paths) ==
    IF paths = <<>> THEN <<>>
    ELSE CollectFromFiles(Head(paths).files) \o Obtainable(Tail(paths))

\* C15: an adapter's collect never raises: when reading or parsing any single
\* storage location, file, table or row fails, that item is skipped and collect
\* still returns the conversations obtained from all the other items
C15_CollectNeverRaises ==
    returned =>
        /\ ret.raised = "NULL"
        /\ ret.conversations =
              filter_by_date(
                  deduplicate_conversations(
                      Obtainable(args.paths)
                          \o (IF args.adapter = "cursor" THEN Obtainable(<<[files |-> args.logs]>>)
                              ELSE <<>>)),
                  args.since_date)

\* the role the aliasing rule gives a stored role: human, user, me, prompt give
\* user; system stays system; assistant, ai, bot, model names and every other
\* role give assistant
AliasedRole(role) ==
    IF role \in {"human", "user", "me", "prompt"} THEN "user"
    ELSE IF role = "system" THEN "system"
    ELSE "assistant"

\* C17: every Message produced by an adapter's message parsing has role in
\* {user, assistant, system}: the aliases human/user/me/prompt give user,
\* assistant/ai/bot/model names give assistant, an explicit system stays
\* system, and every other (unknown) role gives assistant
C17_AdapterRoles ==
    (returned /\ ret.ok) =>
        /\ ret.msg.role \in StandardRoles
        /\ args.msg_data.kind = "dict"
              => ret.msg.role = AliasedRole(Lower(RawRole(args.msg_data)))

\* no identifier was passed to the constructor
Missing(id) == id \in {"NULL", ""}

\* C18: synthesized identifiers are deterministic: two Messages built without
\* a message_id and with equal (role, content) get equal message_id whatever
\* their timestamps or metadata, and two Conversations built without an id and
\* with equal (source, thread_id, created_at) get equal id
C18_DeterministicIds ==
    (returned /\ Missing(IF args.kind = "Message" THEN args.a.message_id ELSE args.a.id)
              /\ Missing(IF args.kind = "Message" THEN args.b.message_id ELSE args.b.id)) =>
        /\ (args.kind = "Message" /\ args.a.role = args.b.role
                                  /\ args.a.content = args.b.content)
              => ret[1].message_id = ret[2].message_id
        /\ (args.kind = "Conversation" /\ args.a.source = args.b.source
                                       /\ args.a.thread_id = args.b.thread_id
                                       /\ args.a.created_at = args.b.created_at)
              => ret[1].id = ret[2].id

\* two Messages with one (role, content), different timestamps and metadata and
\* no message_id have been built, and carry one synthesized message_id
C18_Witness ==
    /\ returned
    /\ args.kind = "Message"
    /\ Missing(args.a.message_id) /\ Missing(args.b.message_id)
    /\ args.a.role = args.b.role /\ args.a.content = args.b.content
    /\ args.a.timestamp # args.b.timestamp
    /\ args.a.metadata # args.b.metadata
    /\ ret[1].message_id = ret[2].message_id
    /\ ret[1].message_id[1] = "msg_"

\* at least two of the keywords of table entry n occur in the lowercased text
TwoKeywordsOccur(n, text) ==
    \E i, j \in 1..Len(TOPIC_KEYWORDS[n].keywords) :
        /\ i < j
        /\ Contains(normalise_text(text), TOPIC_KEYWORDS[n].keywords[i])
        /\ Contains(normalise_text(text), TOPIC_KEYWORDS[n].keywords[j])

Qualifying(text) == {n \in 1..Len(TOPIC_KEYWORDS) : TwoKeywordsOccur(n, text)}

NoTopicsGiven(existing) ==
    existing.none \/ \A i \in 1..Len(existing.val) : existing.val[i] = ""

\* C19: when no caller-supplied topics are given, infer_topics returns exactly
\* the topics of the static table, in table order, for which at least 2 of the
\* topic's keywords occur in the lowercased text, and returns ["General"] when
\* no topic qualifies; the result is never empty
C19_InferTopics ==
    returned =>
        /\ ret # <<>>
        /\ NoTopicsGiven(args.existing) =>
              IF Qualifying(args.text) = {}
              THEN ret = <<"General">>
              ELSE /\ Len(ret) = Cardinality(Qualifying(args.text))
                   /\ \A k \in 1..Len(ret) :
                          ret[k] = TOPIC_KEYWORDS[SeqOfSet(Qualifying(args.text))[k]].topic

\* infer_topics has returned two topics for a text without caller-supplied
\* topics, a text in which a third topic has a single keyword hit
C19_Witness ==
    /\ returned
    /\ NoTopicsGiven(args.existing)
    /\ Cardinality(Qualifying(args.text)) = 2
    /\ Len(ret) = 2
    /\ \E n \in 1..Len(TOPIC_KEYWORDS) :
          /\ n \notin Qualifying(args.text)
          /\ Matches(TOPIC_KEYWORDS[n].keywords, normalise_text(args.text)) = 1

\* the values of a payload under the hint keys, in key order
ValueAt(payload, i) == Get(ItemsOf(payload), PROJECT_HINT_KEYS[i])

\* the keys of a payload that hold a non-empty string
NonEmptyAt(payload) ==
    {i \in 1..Len(PROJECT_HINT_KEYS) :
        ValueAt(payload, i).type = "str" /\ ValueAt(payload, i).val # <<>>}

\* the keys of a payload that hold a string with something besides whitespace
NonBlankAt(payload) ==
    {i \in 1..Len(PROJECT_HINT_KEYS) :
        /\ ValueAt(payload, i).type = "str"
        /\ \E k \in 1..Len(ValueAt(payload, i).val) :
              ValueAt(payload, i).val[k] \notin Whitespace}

\* the table projects one of whose keywords occurs in the lowercased text
ProjectsIn(text) ==
    {n \in 1..Len(PROJECT_KEYWORDS) :
        \E i \in 1..Len(PROJECT_KEYWORDS[n].keywords) :
            Contains(normalise_text(text), PROJECT_KEYWORDS[n].keywords[i])}

ExplicitGiven == ~args.explicit.none /\ args.explicit.val # <<>>

\* the static table's answer: its first project with a keyword in the text, or null
FromTable ==
    IF ProjectsIn(args.text) # {}
    THEN Str(PROJECT_KEYWORDS[FirstOf(ProjectsIn(args.text))].project)
    ELSE NoneStr

\* C20 (as stated): infer_project returns the first available of, in this
\* order: the explicit value; the first non-empty string under the keys
\* project, workspace, project_path, repo, repository, slug (in that key order)
\* in metadata; the same scan in content; the first project of the static
\* table one of whose keywords occurs in the lowercased text; otherwise null
C20_FirstAvailable ==
    returned =>
        ret = IF ExplicitGiven THEN args.explicit
              ELSE IF NonEmptyAt(args.metadata) # {}
                   THEN Str(ValueAt(args.metadata, FirstOf(NonEmptyAt(args.metadata))).val)
              ELSE IF NonEmptyAt(args.content) # {}
                   THEN Str(ValueAt(args.content, FirstOf(NonEmptyAt(args.content))).val)
              ELSE FromTable

\* C20 (amended): the same order of sources, where the scan of metadata and of
\* content takes the first string that has something besides whitespace, and
\* what is returned is that string with the surrounding whitespace stripped
C20_FirstAvailableStripped ==
    returned =>
        ret = IF ExplicitGiven THEN args.explicit
              ELSE IF NonBlankAt(args.metadata) # {}
                   THEN Str(Strip(ValueAt(args.metadata, FirstOf(NonBlankAt(args.metadata))).val))
              ELSE IF NonBlankAt(args.content) # {}
                   THEN Str(Strip(ValueAt(args.content, FirstOf(NonBlankAt(args.content))).val))
              ELSE FromTable

\* infer_project has returned, without an explicit value, the stripped string
\* of a later key of metadata whose first non-empty string is all whitespace
C20_Witness ==
    /\ returned
    /\ ~ExplicitGiven
    /\ NonBlankAt(args.metadata) # {}
    /\ FirstOf(NonEmptyAt(args.metadata)) < FirstOf(NonBlankAt(args.metadata))
    /\ ValueAt(args.metadata, FirstOf(NonBlankAt(args.metadata))).val = <<" ", "w", "s", " ">>
    /\ ret = Str(<<"w", "s">>)

\* C21: a search with similarity threshold t never returns a candidate whose
\* semantic similarity is below t, whatever the candidate's recency score,
\* recency weight or boost
C21_ThresholdOnSemantic ==
    returned => \A i \in 1..Len(ret) : ret[i].semantic_score >= args.params.threshold

\* a search has returned a candidate and left out one whose similarity is below
\* the threshold although its combined score is above the threshold and above
\* the returned candidate's
C21_Witness ==
    /\ returned
    /\ Len(ret) = 1
    /\ \E k \in DOMAIN args.table :
          /\ args.table[k].embedding
          /\ args.table[k].semantic < args.params.threshold
          /\ combined_score(args.table[k], args.params) >= args.params.threshold * WeightOne
          /\ combined_score(args.table[k], args.params) > ret[1].combined_score
          /\ Len(ret) < args.params.limit

\* C22: for two candidates with equal semantic similarity, the one created more
\* recently (smaller elapsed time since creation) never has a lower combined
\* score than the older one, for every recency weight in [0,1], positive decay
\* constant and non-negative boost
C22_RecentNotLower ==
    returned =>
        \A i, j \in 1..Len(ret) :
            (/\ ret[i].semantic_score = ret[j].semantic_score
             /\ ret[i].age # NoTime /\ ret[j].age # NoTime
             /\ ret[i].age < ret[j].age)
                => ret[i].combined_score >= ret[j].combined_score

\* two candidates of one similarity have been returned, the more recent one
\* inside the boost window with a strictly higher combined score
C22_Witness ==
    /\ returned
    /\ \E i, j \in 1..Len(ret) :
          /\ ret[i].semantic_score = ret[j].semantic_score
          /\ ret[i].age < ret[j].age
          /\ InBoostWindow(ret[i].age, args.params.recency_boost_days)
          /\ ~InBoostWindow(ret[j].age, args.params.recency_boost_days)
          /\ args.params.recency_boost_value > 0
          /\ ret[i].combined_score > ret[j].combined_score

\* C23: search results are returned in descending order of combined score, and
\* among results with equal combined score in descending order of semantic
\* similarity
C23_OrderedWithTieBreak ==
    returned =>
        \A i, j \in 1..Len(ret) :
            i < j =>
                \/ ret[i].combined_score > ret[j].combined_score
                \/ /\ ret[i].combined_score = ret[j].combined_score
                   /\ ret[i].semantic_score >= ret[j].semantic_score

LastOf(seq) == seq[Len(seq)]

\* the step is an attempt of the worker on row i
Attempted(i) == Len(attempts'[i]) > Len(attempts[i])

\* C24: each failed derivation attempt by the worker increases the row's
\* retry_count by exactly 1 and records the error; when the new count is below
\* the ceiling processed_at stays null and no derived record is created; no
\* other step changes retry_count, and retry_count never exceeds the ceiling
C24_RetryCounting ==
    [][/\ \A i \in Rows :
            IF Attempted(i) /\ LastOf(attempts'[i]) \in Errors
            THEN /\ raw'[i].retry_count = raw[i].retry_count + 1
                 /\ raw'[i].processing_error = LastOf(attempts'[i])
                 /\ raw'[i].retry_count < max_retries =>
                        /\ raw'[i].processed_at = NULL
                        /\ conv' = conv
            ELSE raw'[i].retry_count = raw[i].retry_count
       /\ \A i \in 1..Len(raw') : raw'[i].retry_count <= max_retries]_vars

\* the rows with processed_at null
Unprocessed == {i \in Rows : raw[i].processed_at = NULL}

\* the rows of a batch
InBatch(b) == {b[k] : k \in 1..Len(b)}

\* C25: every batch the worker selects holds at most batch_size rows, all with
\* processed_at null at selection time, and they are the oldest unprocessed
\* rows: no unprocessed row left out of the batch is older than a row in it;
\* the batch is processed oldest first, one row at a time
C25_OldestFirstBatch ==
    [][/\ (pc = "poll" /\ pc' # "poll") =>
            /\ Len(batch') = Min(batch_size, Cardinality(Unprocessed))
            /\ InBatch(batch') \subseteq Unprocessed
            /\ \A k, l \in 1..Len(batch') :
                  k < l => raw[batch'[k]].inserted_at < raw[batch'[l]].inserted_at
            /\ \A i \in Unprocessed \ InBatch(batch') : \A k \in 1..Len(batch') :
                  raw[i].inserted_at >= raw[batch'[k]].inserted_at
            /\ idx' = 1
       /\ \A i \in Rows : Attempted(i) =>
            /\ pc = "batch" /\ batch[idx] = i
            /\ \A j \in Rows \ {i} : ~Attempted(j)
            /\ pc' = "batch" => idx' = idx + 1
       /\ (pc = "batch" /\ pc' = "batch") => batch' = batch /\ idx' \in {idx, idx + 1}]_vars

\* the worker is at the second row of a full batch of two, having attempted the
\* first, while a newer unprocessed row was left out of the batch
C25_Witness ==
    /\ pc = "batch"
    /\ Len(batch) = 2 /\ batch_size = 2
    /\ idx = 2
    /\ attempts[batch[1]] # <<>>
    /\ \E i \in Unprocessed \ InBatch(batch) : raw[i].inserted_at > raw[batch[2]].inserted_at

\* C26: after a poll that returns an empty batch the worker sleeps
\* the idle interval before polling again; after a poll that returns a
\* non-empty batch the worker only yields and polls again immediately, without
\* the idle sleep, whatever the outcomes of the rows in that batch
C26_YieldAfterNonEmpty ==
    [][/\ (pc = "poll" /\ pc' # "poll") => (pc' = "sleep" <=> batch' = <<>>)
       /\ (pc = "batch" /\ pc' # "batch") => pc' = "yield"
       /\ (pc \in {"sleep", "yield"} /\ pc' # pc) => pc' = "poll"]_vars

\* C28: a derived conversation row referencing raw row r exists if and only if
\* r has processed_at set and processing_error null: a failed-terminal or
\* still-unprocessed raw row never has a derived row, and a derived-state raw
\* row always has one
C28_DerivedIffMarked ==
    \A i \in Rows :
        DerivedOf(i) # {} <=> (raw[i].processed_at # NULL /\ raw[i].processing_error = NULL)

\* next to a derived row with its derived record there are a failed-terminal
\* row and a retrying row, neither with a derived record
C28_Witness ==
    \E i, j, k \in Rows :
        /\ DerivedOf(i) # {} /\ raw[i].processed_at # NULL /\ raw[i].retry_count > 0
        /\ raw[j].processed_at # NULL /\ raw[j].processing_error # NULL /\ DerivedOf(j) = {}
        /\ raw[k].processed_at = NULL /\ raw[k].retry_count > 0 /\ DerivedOf(k) = {}

\* the places of the sorted list after which merge_conversations closes a group
Cuts == {i \in 1..(Len(args) - 1) : ~should_merge(args[i], args[i + 1])}

GroupStarts == IF args = <<>> THEN {} ELSE {1} \cup {i + 1 : i \in Cuts}

GroupEnd(s) ==
    CHOOSE e \in s..Len(args) :
        /\ e = Len(args) \/ e \in Cuts
        /\ \A i \in s..(e - 1) : i \notin Cuts

\* the k-th group of the sorted list
Group(k) == SubSeq(args, SeqOfSet(GroupStarts)[k], GroupEnd(SeqOfSet(GroupStarts)[k]))

MessagesOf(group) == UNION {{group[i].messages[j] : j \in 1..Len(group[i].messages)} :
                            i \in 1..Len(group)}

\* C27: a conversation produced by merging a group of two or more conversations
\* keeps the id and thread_id of the group's earliest conversation, has as
\* messages the union of the group's messages with duplicates (same role,
\* content and timestamp) removed and sorted by timestamp, has as tags the
\* union of the group's tags, and has metadata with merged = true,
\* merged_count = size of the group and merged_ids = the ids of the group's
\* conversations; a conversation that merges with nothing is returned unchanged
C27_MergedResult ==
    returned =>
        /\ Len(ret) = Cardinality(GroupStarts)
        /\ \A k \in 1..Len(ret) :
              IF Len(Group(k)) = 1
              THEN ret[k] = Group(k)[1]
              ELSE /\ ret[k].id = Group(k)[1].id
                   /\ ret[k].thread_id = Group(k)[1].thread_id
                   /\ \A i \in 1..Len(Group(k)) : Group(k)[1].created_at <= Group(k)[i].created_at
                   /\ {ret[k].messages[j] : j \in 1..Len(ret[k].messages)} = MessagesOf(Group(k))
                   /\ Len(ret[k].messages) = Cardinality(MessagesOf(Group(k)))
                   /\ \A i, j \in 1..Len(ret[k].messages) :
                          i < j => ret[k].messages[i].timestamp <= ret[k].messages[j].timestamp
                   /\ ret[k].tags = UNION {Group(k)[i].tags : i \in 1..Len(Group(k))}
                   /\ ret[k].metadata.merged = TRUE
                   /\ ret[k].metadata.merged_count = Len(Group(k))
                   /\ ret[k].metadata.merged_ids = [i \in 1..Len(Group(k)) |-> Group(k)[i].id]

\* two conversations given latest first were merged into one: a message they
\* share appears once, and the tags are more than those of the earliest
C27_Witness ==
    /\ returned
    /\ Len(args) = 2 /\ Len(ret) = 1
    /\ args[1].id # args[2].id
    /\ ret[1].id = args[1].id
    /\ args[1].created_at < args[2].created_at
    /\ Len(ret[1].messages) < Len(args[1].messages) + Len(args[2].messages)
    /\ ret[1].tags # args[1].tags
    /\ ret[1].metadata.merged_count = 2

\* a message of conversation i of a call is retained when it is valid and no
\* earlier message of the same conversation has its role, content and timestamp
FirstOfItsKind(conversation, k) ==
    /\ normalize_message(conversation.messages[k]).ok
    /\ \A j \in 1..(k - 1) :
          normalize_message(conversation.messages[j]).msg
              # normalize_message(conversation.messages[k]).msg

\* C29: during normalize, a message is dropped as a duplicate only when a
\* message with the same role, content and timestamp was already retained
\* earlier in the same conversation: messages of one conversation never cause
\* a message, or a whole conversation, of a different conversation to be dropped
C29_DedupWithinConversation ==
    (calls # <<>> /\ calls[Len(calls)].fresh) =>
        \A i \in 1..Len(calls[Len(calls)].arg) :
            PassesFilter(calls[Len(calls)].before[i]) =>
                \A k \in 1..Len(calls[Len(calls)].before[i].messages) :
                    FirstOfItsKind(calls[Len(calls)].before[i], k) =>
                        /\ convs[calls[Len(calls)].arg[i]].metadata.normalized
                        /\ \E j \in 1..Len(convs[calls[Len(calls)].arg[i]].messages) :
                              convs[calls[Len(calls)].arg[i]].messages[j]
                                  = normalize_message(calls[Len(calls)].before[i].messages[k]).msg

\* C30: every conversation returned by merge_conversations has created_at not
\* later than, and updated_at not earlier than, the created_at and updated_at
\* of every input conversation merged into it; in particular
\* created_at <= updated_at whenever that held for each input
C30_SpansItsGroup ==
    returned =>
        \A k \in 1..Len(ret) :
            /\ \A i \in 1..Len(Group(k)) :
                  /\ ret[k].created_at <= Group(k)[i].created_at
                  /\ ret[k].updated_at >= Group(k)[i].updated_at
            /\ (\A i \in 1..Len(Group(k)) : Group(k)[i].created_at <= Group(k)[i].updated_at)
                  => ret[k].created_at <= ret[k].updated_at

====
